---- MODULE Spec2Model ----
(***************************************************************************)
(* A model of the Excel Assistant editor (App.jsx): the workbook/grid      *)
(* interchange code (unit, colour, font and style codecs, document reader  *)
(* and writer, DOM style applicator) and the editor session that drives    *)
(* them (mount, New, Open, Save, chat, toolbar formatting).                *)
(*                                                                         *)
(* JavaScript strings are modelled as sequences of tokens.  A token is     *)
(* either one of the characters the code inspects (";" ":" " " "=" "#"     *)
(* "," "." "-" the double quote, a digit, a hex letter) or an atomic word  *)
(* that contains none of them ("color", "bold", "px", "Calibri").  The     *)
(* string operations of the code (split, trim, startsWith, join,           *)
(* toLowerCase, parseFloat) are defined on these sequences.                *)
(***************************************************************************)
EXTENDS Integers, Sequences, FiniteSets, TLC

(***************************************************************************)
(* Bounds of the model.                                                    *)
(***************************************************************************)
MaxOps == 3
MinRows == 1
MinCols == 2
\* the largest sheet handed to the reader on its own
MaxSheetRows == 2
MaxSheetCols == 2
\* the most segments of a style string handed to the style algebra on its own
MaxSegments == 2
\* the point sizes handed to the unit codec on its own, in thousandths of a
\* point above each base size
MaxMilliPoints == 300

(***************************************************************************)
(* String primitives.                                                      *)
(***************************************************************************)
SP == " "
QUOTE == "\""

IsSpace(t) == t = SP

RECURSIVE TrimLeft(_)
TrimLeft(s) ==
    IF s # <<>> /\ IsSpace(Head(s)) THEN TrimLeft(Tail(s)) ELSE s

RECURSIVE TrimRight(_)
TrimRight(s) ==
    IF s # <<>> /\ IsSpace(s[Len(s)]) THEN TrimRight(SubSeq(s, 1, Len(s) - 1)) ELSE s

\* String.prototype.trim
Trim(s) == TrimRight(TrimLeft(s))

\* String.prototype.split(d) for a one-character separator d: the pieces
\* between the separators, empty pieces included.
Split(s, d) ==
    LET seps == {i \in 1..Len(s) : s[i] = d}
        n == Cardinality(seps)
        SepAt(k) == IF k = 0 THEN 0
                    ELSE IF k = n + 1 THEN Len(s) + 1
                    ELSE CHOOSE i \in seps : Cardinality({j \in seps : j < i}) = k - 1
    IN  [k \in 1..(n + 1) |-> SubSeq(s, SepAt(k - 1) + 1, SepAt(k) - 1)]

\* Array.prototype.join(sep) on a sequence of strings
RECURSIVE Join(_, _)
Join(parts, sep) ==
    IF parts = <<>> THEN <<>>
    ELSE IF Len(parts) = 1 THEN parts[1]
    ELSE parts[1] \o sep \o Join(Tail(parts), sep)

StartsWith(s, t) == s # <<>> /\ Head(s) = t
EndsWith(s, t) == s # <<>> /\ s[Len(s)] = t
Contains(s, t) == \E i \in 1..Len(s) : s[i] = t

\* Array.prototype.filter / map on sequences
RECURSIVE FilterNonEmpty(_)
FilterNonEmpty(parts) ==
    IF parts = <<>> THEN <<>>
    ELSE IF Head(parts) = <<>> THEN FilterNonEmpty(Tail(parts))
    ELSE <<Head(parts)>> \o FilterNonEmpty(Tail(parts))

MapTrim(parts) == [i \in 1..Len(parts) |-> Trim(parts[i])]

(***************************************************************************)
(* Style String Algebra.  A property map (a JavaScript object used as a    *)
(* map) is a sequence of entries [k, v] with distinct keys, in insertion   *)
(* order; assigning an existing key keeps its position.                    *)
(***************************************************************************)
HasKey(m, k) == \E i \in 1..Len(m) : m[i].k = k
KeyIndex(m, k) == CHOOSE i \in 1..Len(m) : m[i].k = k
Get(m, k) == m[KeyIndex(m, k)].v
Keys(m) == {m[i].k : i \in 1..Len(m)}

\* acc[prop] = value
SetProp(m, k, v) ==
    IF HasKey(m, k)
    THEN [m EXCEPT ![KeyIndex(m, k)] = [k |-> k, v |-> v]]
    ELSE Append(m, [k |-> k, v |-> v])

\* the reducer of parseStyleString: const [prop, value] = part.split(':').map(trim);
\* if (prop && value) acc[prop] = value
ParsePart(acc, part) ==
    LET pieces == MapTrim(Split(part, ":"))
        prop == pieces[1]
        hasValue == Len(pieces) >= 2
    IN  IF prop # <<>> /\ hasValue /\ pieces[2] # <<>>
        THEN SetProp(acc, prop, pieces[2])
        ELSE acc

RECURSIVE ReduceParts(_, _)
ReduceParts(acc, parts) ==
    IF parts = <<>> THEN acc
    ELSE ReduceParts(ParsePart(acc, Head(parts)), Tail(parts))

parseStyleString(styleString) ==
    ReduceParts(<<>>, FilterNonEmpty(MapTrim(Split(styleString, ";"))))

RECURSIVE ApplyUpdates(_, _)
ApplyUpdates(merged, updates) ==
    IF updates = <<>> THEN merged
    ELSE ApplyUpdates(SetProp(merged, Head(updates).k, Head(updates).v), Tail(updates))

\* a serialisation that joins the entries with commas
Serialize_comma(m) ==
    Join([i \in 1..Len(m) |-> m[i].k \o <<":", SP>> \o m[i].v], <<",", SP>>)

\* Object.entries(merged).map(([k, v]) => `${k}: ${v}`).join('; ')
Serialize(m) ==
    Join([i \in 1..Len(m) |-> m[i].k \o <<":", SP>> \o m[i].v], <<";", SP>>)

\* mergeStyleStrings that serialises the updates alone, dropping what was there
mergeStyleStrings_replace(existing, updates) ==
    Serialize(ApplyUpdates(<<>>, updates))

mergeStyleStrings(existing, updates) ==
    Serialize(ApplyUpdates(parseStyleString(existing), updates))

(***************************************************************************)
(* Letter case.  toLowerCase / toUpperCase map each token through a table  *)
(* of the letters and words of the model's alphabet; every other token     *)
(* (digits, punctuation, words already in that case) is its own image.     *)
(***************************************************************************)
LowerTable ==
    [t \in {"A", "B", "C", "D", "E", "F"} |->
        CASE t = "A" -> "a" [] t = "B" -> "b" [] t = "C" -> "c"
          [] t = "D" -> "d" [] t = "E" -> "e" [] t = "F" -> "f"] @@
    [t \in {"Calibri", "Carlito", "Inter", "Noto", "Sans", "Segoe", "UI", "Helvetica",
            "Neue", "Arial", "Verdana", "PT", "PX"} |->
        CASE t = "Calibri" -> "calibri" [] t = "Carlito" -> "carlito"
          [] t = "Inter" -> "inter" [] t = "Noto" -> "noto" [] t = "Sans" -> "sans"
          [] t = "Segoe" -> "segoe" [] t = "UI" -> "ui" [] t = "Helvetica" -> "helvetica"
          [] t = "Neue" -> "neue" [] t = "Arial" -> "arial" [] t = "Verdana" -> "verdana"
          [] t = "PT" -> "pt" [] t = "PX" -> "px"]

UpperTable ==
    [t \in {"a", "b", "c", "d", "e", "f"} |->
        CASE t = "a" -> "A" [] t = "b" -> "B" [] t = "c" -> "C"
          [] t = "d" -> "D" [] t = "e" -> "E" [] t = "f" -> "F"] @@
    [t \in {"red", "blue", "px", "pt", "sans", "serif"} |->
        CASE t = "red" -> "RED" [] t = "blue" -> "BLUE" [] t = "px" -> "PX"
          [] t = "pt" -> "PT" [] t = "sans" -> "SANS" [] t = "serif" -> "SERIF"]

toLowerCase(s) ==
    [i \in 1..Len(s) |-> IF s[i] \in DOMAIN LowerTable THEN LowerTable[s[i]] ELSE s[i]]
toUpperCase(s) ==
    [i \in 1..Len(s) |-> IF s[i] \in DOMAIN UpperTable THEN UpperTable[s[i]] ELSE s[i]]

\* String.prototype.length: the characters of all tokens
RECURSIVE StrLength(_)
StrLength(s) == IF s = <<>> THEN 0 ELSE Len(Head(s)) + StrLength(Tail(s))

(***************************************************************************)
(* Unit Codec.  A size is held in hundredths of a unit (1600 is 16.00);    *)
(* a number-or-null is a record [null, n].  Math.round(x) is floor(x+1/2). *)
(***************************************************************************)
Null == [null |-> TRUE, n |-> 0]
Num(n) == [null |-> FALSE, n |-> n]

\* toFixedNumber(sizePt * PX_PER_POINT): Math.round(pt * (4/3) * 100) / 100
ptToPx(sizePt) ==
    IF sizePt.null THEN Null ELSE Num((8 * sizePt.n + 3) \div 6)

\* toFixedNumber(sizePx * PT_PER_PX): Math.round(px * (3/4) * 100) / 100
pxToPt(sizePx) ==
    IF sizePx.null THEN Null ELSE Num((6 * sizePx.n + 4) \div 8)

DigitChars == <<"0", "1", "2", "3", "4", "5", "6", "7", "8", "9">>
IsDigit(t) == \E d \in 1..10 : DigitChars[d] = t
DigitVal(t) == (CHOOSE d \in 1..10 : DigitChars[d] = t) - 1

\* the decimal numeral of a natural number
RECURSIVE NatToStr(_)
NatToStr(n) ==
    IF n < 10 THEN <<DigitChars[n + 1]>>
    ELSE NatToStr(n \div 10) \o <<DigitChars[(n % 10) + 1]>>

\* `${x}` for a number x >= 0 with at most two decimals, given in hundredths
NumToStr(n) ==
    LET ip == n \div 100
        fp == n % 100
    IN  IF fp = 0 THEN NatToStr(ip)
        ELSE IF fp % 10 = 0 THEN NatToStr(ip) \o <<".", DigitChars[(fp \div 10) + 1]>>
        ELSE NatToStr(ip) \o <<".", DigitChars[(fp \div 10) + 1], DigitChars[(fp % 10) + 1]>>

formatPx(sizePx) ==
    IF sizePx.null THEN <<>> ELSE NumToStr(sizePx.n)

RECURSIVE TakeDigits(_)
TakeDigits(s) ==
    IF s # <<>> /\ IsDigit(Head(s)) THEN <<Head(s)>> \o TakeDigits(Tail(s)) ELSE <<>>

RECURSIVE DigitsToNat(_)
DigitsToNat(ds) ==
    IF ds = <<>> THEN 0 ELSE 10 * DigitsToNat(SubSeq(ds, 1, Len(ds) - 1)) + DigitVal(ds[Len(ds)])

\* parseFloat: the longest numeric prefix (sign, digits, fraction), NaN (null
\* here) when there is none; fraction digits past the second are dropped
parseFloat(s) ==
    LET t == TrimLeft(s)
        neg == t # <<>> /\ Head(t) = "-"
        body == IF t # <<>> /\ Head(t) \in {"-", "+"} THEN Tail(t) ELSE t
        ip == TakeDigits(body)
        rest == SubSeq(body, Len(ip) + 1, Len(body))
        fp == IF rest # <<>> /\ Head(rest) = "." THEN TakeDigits(Tail(rest)) ELSE <<>>
        f2 == SubSeq(fp \o <<"0", "0">>, 1, 2)
        mag == 100 * DigitsToNat(ip) + DigitsToNat(f2)
    IN  IF ip = <<>> /\ fp = <<>> THEN Null
        ELSE Num(IF neg THEN 0 - mag ELSE mag)

parseCssFontSize(value) ==
    IF value = <<>> THEN Null
    ELSE LET normalized == Trim(value)
             numeric == parseFloat(normalized)
         IN  IF numeric.null THEN Null
             ELSE IF EndsWith(toLowerCase(normalized), "pt") THEN ptToPx(numeric)
             ELSE numeric

(***************************************************************************)
(* Font Resolution.                                                        *)
(***************************************************************************)
Quoted(w) == <<QUOTE>> \o w \o <<QUOTE>>

FontCalibri == <<"Calibri">>
FontSegoeUI == <<"Segoe", SP, "UI">>

DEFAULT_FONT_FALLBACKS ==
    << Quoted(<<"Inter">>), Quoted(<<"Noto", SP, "Sans">>),
       Quoted(<<"Helvetica", SP, "Neue">>), <<"Arial">>, <<"sans", "-", "serif">> >>

FONT_FALLBACKS(primary) ==
    IF primary = FontCalibri THEN <<Quoted(<<"Carlito">>)>> \o DEFAULT_FONT_FALLBACKS
    ELSE IF primary = FontSegoeUI THEN DEFAULT_FONT_FALLBACKS
    ELSE <<>>

IsQuoteChar(t) == t \in {QUOTE, "'"}

\* normalizeFontName that only trims, leaving the quotes in place
normalizeFontName_keepQuotes(name) == Trim(name)

\* name.replace(/^['"]|['"]$/g, '').trim()
normalizeFontName(name) ==
    LET a == IF name # <<>> /\ IsQuoteChar(Head(name)) THEN Tail(name) ELSE name
        b == IF a # <<>> /\ IsQuoteChar(a[Len(a)]) THEN SubSeq(a, 1, Len(a) - 1) ELSE a
    IN  Trim(b)

\* [..].filter(part => { key = part.toLowerCase(); seen.has(key) ? false : add })
RECURSIVE DedupParts(_, _)
DedupParts(parts, seen) ==
    IF parts = <<>> THEN <<>>
    ELSE LET key == toLowerCase(Head(parts))
         IN  IF key \in seen THEN DedupParts(Tail(parts), seen)
             ELSE <<Head(parts)>> \o DedupParts(Tail(parts), seen \cup {key})

FontFamilyParts(name) ==
    LET n == normalizeFontName(name)
        primary == IF n = <<>> THEN FontSegoeUI ELSE n
        fb == FONT_FALLBACKS(primary)
        fallbacks == IF fb = <<>> THEN DEFAULT_FONT_FALLBACKS ELSE fb
        primaryToken == IF Contains(primary, SP) THEN Quoted(primary) ELSE primary
    IN  DedupParts(<<primaryToken>> \o fallbacks, {})

buildFontFamily(name) == Join(FontFamilyParts(name), <<",", SP>>)

(***************************************************************************)
(* Style Codec, ExcelJS variant.  A font is a record of its fields; a      *)
(* field that is absent holds the falsy value of its type (empty string,   *)
(* 0, FALSE) and `keys` lists the fields that are set.  A cell style is    *)
(* [hasFont, font, hasFill, fill].                                         *)
(***************************************************************************)
NoFont == [keys |-> {}, color |-> <<>>, name |-> <<>>, size |-> 0,
           bold |-> FALSE, italic |-> FALSE]
NoFill == [type |-> "none", fg |-> <<>>, bg |-> <<>>]
NoStyle == [hasFont |-> FALSE, font |-> NoFont, hasFill |-> FALSE, fill |-> NoFill]

\* argb.slice(-6)
SliceLast6(s) == IF Len(s) <= 6 THEN s ELSE SubSeq(s, Len(s) - 5, Len(s))

\* a null colour is the empty string here
excelColorToCss(argb) ==
    IF argb = <<>> THEN <<>> ELSE <<"#">> \o SliceLast6(argb)

excelCellStyleToCss(cell) ==
    LET font == cell.font
        fill == cell.fill
        cColor == IF cell.hasFont /\ font.color # <<>>
                  THEN <<<<"color", ":", SP>> \o excelColorToCss(font.color)>> ELSE <<>>
        cName == IF cell.hasFont /\ font.name # <<>>
                 THEN <<<<"font-family", ":", SP>> \o buildFontFamily(font.name)>> ELSE <<>>
        pxSize == ptToPx(Num(font.size))
        cSize == IF cell.hasFont /\ font.size # 0 /\ ~pxSize.null
                 THEN <<<<"font-size", ":", SP>> \o formatPx(pxSize) \o <<"px">>>> ELSE <<>>
        cBold == IF cell.hasFont /\ font.bold
                 THEN <<<<"font-weight", ":", SP, "bold">>>> ELSE <<>>
        cItalic == IF cell.hasFont /\ font.italic
                   THEN <<<<"font-style", ":", SP, "italic">>>> ELSE <<>>
        color == excelColorToCss(IF fill.fg # <<>> THEN fill.fg ELSE fill.bg)
        cFill == IF cell.hasFill /\ fill.type = "pattern" /\ color # <<>>
                 THEN <<<<"background-color", ":", SP>> \o color>> ELSE <<>>
    IN  Join(cColor \o cName \o cSize \o cBold \o cItalic \o cFill, <<";", SP>>)

\* s.replace('#', ''): the first occurrence only
RECURSIVE RemoveFirst(_, _)
RemoveFirst(s, t) ==
    IF s = <<>> THEN <<>>
    ELSE IF Head(s) = t THEN Tail(s)
    ELSE <<Head(s)>> \o RemoveFirst(Tail(s), t)

RECURSIVE padStart(_, _, _)
padStart(s, n, t) == IF StrLength(s) >= n THEN s ELSE padStart(<<t>> \o s, n, t)

CssColorToArgb(c) == <<"F", "F">> \o toUpperCase(padStart(RemoveFirst(c, "#"), 6, "0"))

Prop(parsed, k) == IF HasKey(parsed, <<k>>) THEN Get(parsed, <<k>>) ELSE <<>>

cssToExcelStyle(cssString) ==
    IF cssString = <<>> THEN NoStyle
    ELSE
    LET parsed == parseStyleString(cssString)
        pColor == Prop(parsed, "color")
        pFamily == Prop(parsed, "font-family")
        pSize == Prop(parsed, "font-size")
        pWeight == Prop(parsed, "font-weight")
        pStyle == Prop(parsed, "font-style")
        bg == Prop(parsed, "background-color")
        sizePx == parseCssFontSize(pSize)
        sizePt == pxToPt(sizePx)
        hasSize == pSize # <<>> /\ ~sizePx.null /\ ~sizePt.null
        keys == (IF pColor # <<>> THEN {"color"} ELSE {})
                \cup (IF pFamily # <<>> THEN {"name"} ELSE {})
                \cup (IF hasSize THEN {"size"} ELSE {})
                \cup (IF pWeight # <<>> THEN {"bold"} ELSE {})
                \cup (IF pStyle # <<>> THEN {"italic"} ELSE {})
        font == [keys |-> keys,
                 color |-> IF pColor # <<>> THEN CssColorToArgb(pColor) ELSE <<>>,
                 name |-> IF pFamily # <<>>
                          THEN normalizeFontName(Split(pFamily, ",")[1]) ELSE <<>>,
                 size |-> IF hasSize THEN sizePt.n ELSE 0,
                 bold |-> pWeight = <<"bold">> \/ pWeight = <<"7", "0", "0">>,
                 italic |-> pStyle = <<"italic">>]
    IN  [hasFont |-> keys # {},
         font |-> IF keys # {} THEN font ELSE NoFont,
         hasFill |-> bg # <<>>,
         fill |-> IF bg # <<>>
                  THEN [type |-> "pattern", fg |-> CssColorToArgb(bg), bg |-> <<>>]
                  ELSE NoFill]

(***************************************************************************)
(* JavaScript values of grid cells: a record [t, s, n] with t the type     *)
(* ("str", "num", "inf", "nan", "bool", "null", "undef", "obj"), s the     *)
(* text of a string and n the number in hundredths (4200 is 42), the sign  *)
(* of an infinity, or 1/0 for a boolean.                                   *)
(***************************************************************************)
JStr(s) == [t |-> "str", s |-> s, n |-> 0]
JNum(n) == [t |-> "num", s |-> <<>>, n |-> n]
JInf(sign) == [t |-> "inf", s |-> <<>>, n |-> sign]
JNaN == [t |-> "nan", s |-> <<>>, n |-> 0]
JBool(b) == [t |-> "bool", s |-> <<>>, n |-> IF b THEN 1 ELSE 0]
JNull == [t |-> "null", s |-> <<>>, n |-> 0]
JUndef == [t |-> "undef", s |-> <<>>, n |-> 0]
JObj == [t |-> "obj", s |-> <<>>, n |-> 0]
EmptyStr == JStr(<<>>)

\* String(x) of a number given in hundredths
SignedNumToStr(n) == IF n < 0 THEN <<"-">> \o NumToStr(0 - n) ELSE NumToStr(n)

\* String(value)
ToStr(v) ==
    CASE v.t = "str" -> v.s
      [] v.t = "num" -> SignedNumToStr(v.n)
      [] v.t = "inf" -> IF v.n < 0 THEN <<"-", "Infinity">> ELSE <<"Infinity">>
      [] v.t = "nan" -> <<"NaN">>
      [] v.t = "bool" -> IF v.n = 1 THEN <<"true">> ELSE <<"false">>
      [] v.t = "null" -> <<"null">>
      [] v.t = "undef" -> <<"undefined">>
      [] OTHER -> <<"[object Object]">>

\* Number(string): the whole trimmed string must be a numeric literal
StringToNumber(str) ==
    LET t == Trim(str)
        neg == t # <<>> /\ Head(t) = "-"
        body == IF t # <<>> /\ Head(t) \in {"-", "+"} THEN Tail(t) ELSE t
        ip == TakeDigits(body)
        rest == SubSeq(body, Len(ip) + 1, Len(body))
        hasDot == rest # <<>> /\ Head(rest) = "."
        fp == IF hasDot THEN TakeDigits(Tail(rest)) ELSE <<>>
        used == Len(ip) + (IF hasDot THEN 1 + Len(fp) ELSE 0)
        f2 == SubSeq(fp \o <<"0", "0">>, 1, 2)
        mag == 100 * DigitsToNat(ip) + DigitsToNat(f2)
    IN  IF t = <<>> THEN JNum(0)
        ELSE IF body = <<"Infinity">> THEN JInf(IF neg THEN 0 - 1 ELSE 1)
        ELSE IF (ip = <<>> /\ fp = <<>>) \/ used # Len(body) THEN JNaN
        ELSE JNum(IF neg THEN 0 - mag ELSE mag)

\* Number(value)
ToNumber(v) ==
    CASE v.t = "str" -> StringToNumber(v.s)
      [] v.t \in {"num", "inf", "nan"} -> v
      [] v.t = "bool" -> JNum(100 * v.n)
      [] v.t = "null" -> JNum(0)
      [] OTHER -> JNaN

(***************************************************************************)
(* Document Reader.  A cell of the loaded worksheet is [formula, value,    *)
(* text, style]: cell.formula ("" when there is none), cell.value,         *)
(* cell.text and the cell's font/fill.  cell.value is a record: a scalar   *)
(* (t, s, n as above), a Date (t = "date") or an object (t = "obj") with   *)
(* the own keys `keys` and the fields formula, sharedFormula, richText,    *)
(* hyperlink, text, result.                                                *)
(***************************************************************************)
VScalar(jv) ==
    [t |-> jv.t, s |-> jv.s, n |-> jv.n, keys |-> {}, formula |-> <<>>,
     sharedFormula |-> <<>>, richIsArray |-> FALSE, richText |-> <<>>,
     hyperlink |-> <<>>, text |-> <<>>, result |-> JUndef]
VDate == [VScalar(JNull) EXCEPT !.t = "date"]
VObject(keys) == [VScalar(JNull) EXCEPT !.t = "obj", !.keys = keys]

\* v && typeof v === 'object': null is excluded by the truthiness test
IsObject(v) == v.t \in {"obj", "date"}

\* cell.formula || (v is object && 'formula' in v && v.formula)
\*              || (v is object && 'sharedFormula' in v && v.sharedFormula)
CellFormula(cell) ==
    LET v == cell.value
    IN  IF cell.formula # <<>> THEN cell.formula
        ELSE IF IsObject(v) /\ "formula" \in v.keys /\ v.formula # <<>> THEN v.formula
        ELSE IF IsObject(v) /\ "sharedFormula" \in v.keys THEN v.sharedFormula
        ELSE <<>>

\* v.richText.map(part => part.text || '').join('')
RECURSIVE ConcatRuns(_)
ConcatRuns(runs) == IF runs = <<>> THEN <<>> ELSE Head(runs) \o ConcatRuns(Tail(runs))

ISOString == <<"2024", "-", "01", "-", "01", "T", "00", ":", "00", ":", "00", ".", "000", "Z">>

\* DisplayValue that tests for a hyperlink before it tests for rich text
DisplayValue_linkFirst(cell) ==
    LET v == cell.value
        formula == CellFormula(cell)
        displayValue ==
            IF formula # <<>> THEN JStr(<<"=">> \o formula)
            ELSE IF v.t \notin {"null", "undef"} THEN
                IF IsObject(v) THEN
                    IF "hyperlink" \in v.keys THEN
                        JStr(IF v.text # <<>> THEN v.text ELSE v.hyperlink)
                    ELSE IF "richText" \in v.keys /\ v.richIsArray
                    THEN JStr(ConcatRuns(v.richText))
                    ELSE IF "result" \in v.keys /\ v.result.t # "undef" THEN v.result
                    ELSE JStr(cell.text)
                ELSE [t |-> v.t, s |-> v.s, n |-> v.n]
            ELSE EmptyStr
    IN  IF displayValue.t \in {"undef", "null"} THEN EmptyStr ELSE displayValue

\* lines 343-364: the display value of one cell, null/undefined normalised to ''
DisplayValue(cell) ==
    LET v == cell.value
        formula == CellFormula(cell)
        displayValue ==
            IF formula # <<>> THEN JStr(<<"=">> \o formula)
            ELSE IF v.t \notin {"null", "undef"} THEN
                IF IsObject(v) THEN
                    IF "richText" \in v.keys /\ v.richIsArray THEN JStr(ConcatRuns(v.richText))
                    ELSE IF "hyperlink" \in v.keys THEN
                        JStr(IF v.text # <<>> THEN v.text ELSE v.hyperlink)
                    ELSE IF "result" \in v.keys /\ v.result.t # "undef" THEN v.result
                    ELSE JStr(cell.text)
                ELSE IF v.t = "date" THEN
                    JStr(IF cell.text # <<>> THEN cell.text ELSE ISOString)
                ELSE [t |-> v.t, s |-> v.s, n |-> v.n]
            ELSE EmptyStr
    IN  IF displayValue.t \in {"undef", "null"} THEN EmptyStr ELSE displayValue

EmptyCell == [formula |-> <<>>, value |-> VScalar(JNull), text |-> <<>>, style |-> NoStyle]

(***************************************************************************)
(* Cell addresses (XLSX.utils.encode_cell / decode_cell).                  *)
(***************************************************************************)
ColLetters == <<"A", "B", "C", "D", "E", "F">>
RowNumbers == <<"1", "2", "3", "4", "5", "6">>
encode_cell(r, c) == ColLetters[c + 1] \o RowNumbers[r + 1]
decode_cell(a) ==
    CHOOSE rc \in (0..5) \X (0..5) : encode_cell(rc[1], rc[2]) = a

(***************************************************************************)
(* extractDataAndStyles on a decoded worksheet: a sequence of rows, each a *)
(* sequence of cells (rowCount is the number of rows, cellCount of a row   *)
(* the length of that row).  getRow(r).getCell(c) of a position the sheet  *)
(* does not hold is an empty cell.                                         *)
(***************************************************************************)
Max(a, b) == IF a >= b THEN a ELSE b
Min(a, b) == IF a <= b THEN a ELSE b

RECURSIVE MaxCellCount(_)
MaxCellCount(rows) ==
    IF rows = <<>> THEN 0 ELSE Max(Len(Head(rows)), MaxCellCount(Tail(rows)))

GetCell(ws, r, c) ==
    IF r <= Len(ws) /\ c <= Len(ws[r]) THEN ws[r][c] ELSE EmptyCell

\* extractDataAndStyles that leaves each row as long as the sheet has it and
\* records no style
extractDataAndStyles_ragged(ws) ==
    [data |-> [r \in 1..Max(Len(ws), 1) |->
                  [c \in 1..(IF r <= Len(ws) THEN Len(ws[r]) ELSE 0) |->
                      DisplayValue(GetCell(ws, r, c))]],
     styles |-> [a \in {} |-> <<>>]]

extractDataAndStyles(ws) ==
    LET rows == Max(Len(ws), 1)
        cols == Max(MaxCellCount(ws), 1)
        styled == {rc \in (1..rows) \X (1..cols) :
                      excelCellStyleToCss(GetCell(ws, rc[1], rc[2]).style) # <<>>}
        addrs == {encode_cell(rc[1] - 1, rc[2] - 1) : rc \in styled}
    IN  [data |-> [r \in 1..rows |-> [c \in 1..cols |-> DisplayValue(GetCell(ws, r, c))]],
         styles |-> [a \in addrs |->
                        LET rc == decode_cell(a)
                        IN  excelCellStyleToCss(GetCell(ws, rc[1] + 1, rc[2] + 1).style)]]

(***************************************************************************)
(* Document Writer.  A written cell is [kind, formula, value, style]:      *)
(* kind "formula" for cell.value = { formula }, "value" otherwise.         *)
(***************************************************************************)
\* lines 382-392: the value stored for one grid value
WriteValue(cellValue) ==
    LET cellStr == IF cellValue.t \in {"null", "undef"} THEN <<>> ELSE ToStr(cellValue)
        num == ToNumber(cellValue)
    IN  IF StartsWith(cellStr, "=")
        THEN [kind |-> "formula", formula |-> Tail(cellStr), value |-> JUndef]
        ELSE IF num.t # "nan" /\ Trim(cellStr) # <<>>
        THEN [kind |-> "value", formula |-> <<>>, value |-> num]
        ELSE [kind |-> "value", formula |-> <<>>, value |-> cellValue]

StyleAt(styles, a) == IF a \in DOMAIN styles THEN styles[a] ELSE <<>>

\* lines 379-398: the cells of the worksheet built from a grid and a style map
dataToExcelBuffer(data, styles) ==
    [r \in 1..Len(data) |-> [c \in 1..Len(data[r]) |->
        [cell |-> WriteValue(data[r][c]),
         style |-> cssToExcelStyle(StyleAt(styles, encode_cell(r - 1, c - 1)))]]]

(***************************************************************************)
(* The editor session (function App).                                      *)
(*                                                                         *)
(*   widgets       every jspreadsheet instance created so far, in order:   *)
(*                 [style, dom, load, data] = the style object it was      *)
(*                 created with, the inline style of each rendered cell,   *)
(*                 the load that created it (0 for mount and New) and the  *)
(*                 data option it was given.  The cells of a destroyed     *)
(*                 instance stay reachable from it.                        *)
(*   instance      jspreadsheetInstance.current (0 is null)                *)
(*   grid          the data the current instance holds (getData())         *)
(*   heap          the style-map objects allocated so far                  *)
(*   stylesRef     stylesRef.current, an index into heap                   *)
(*   selectedRange [set, x1, y1, x2, y2]; set is FALSE for null            *)
(*   loads         the handleUpload / loadFromArrayBuffer calls in flight  *)
(*   loadLog       per started load: its status and the loads that were in *)
(*                 flight when it started                                  *)
(*   pending       the scheduled restyles (requestAnimationFrame / timer   *)
(*                 callbacks), in registration order                       *)
(*   lastRestyles  the applyAllStylesToDom calls of the latest frame/timer *)
(*   saves         the handleDownload calls in flight                      *)
(*   downloaded    the file the last completed download handed out         *)
(*   chat          the handleSendMessage call in flight                    *)
(*   chatResult    what the last handleSendMessage call returned           *)
(*   messages      the messages state of ChatSidebar: [role, content]      *)
(*   fileName      the fileName state of App                               *)
(*   isLoading     the isLoading state of App                              *)
(*   hasRAF        whether window.requestAnimationFrame is a function      *)
(*   alerts        the number of alert() calls so far                      *)
(*   ops           the number of user operations so far (bounded by MaxOps)*)
(*   codec         the cell under conversion (specification CodecSpec)     *)
(*   calc          the argument and the results of the pure function under *)
(*                 evaluation (the specifications of the codecs below)     *)
(***************************************************************************)
VARIABLES widgets, instance, grid, heap, stylesRef, selectedRange, fileName,
          isLoading, loads, loadLog, pending, hasRAF, lastRestyles, saves,
          downloaded, chat, chatResult, alerts, ops, codec, calc, messages

vars == <<widgets, instance, grid, heap, stylesRef, selectedRange, fileName,
          isLoading, loads, loadLog, pending, hasRAF, lastRestyles, saves,
          downloaded, chat, chatResult, alerts, ops, codec, calc, messages>>

sessionVars == <<widgets, instance, grid, heap, stylesRef, selectedRange, fileName,
                 isLoading, loads, loadLog, pending, hasRAF, lastRestyles, saves,
                 downloaded, chat, chatResult, alerts, ops, messages>>

\* setSelectedRange(null)
NoRange == [set |-> FALSE, x1 |-> 0, y1 |-> 0, x2 |-> 0, y2 |-> 0]

\* the style map currently open
styles == heap[stylesRef]
EmptyStyles == [a \in {} |-> <<>>]

(***************************************************************************)
(* The files a user can pick and the agent can return: two workbooks and a *)
(* buffer that is not a workbook.                                          *)
(***************************************************************************)
RedBold == [hasFont |-> TRUE,
            font |-> [NoFont EXCEPT !.color = <<"F", "F", "F", "F", "0", "0", "0", "0">>,
                                    !.bold = TRUE],
            hasFill |-> FALSE, fill |-> NoFill]
YellowFill == [hasFont |-> FALSE, font |-> NoFont, hasFill |-> TRUE,
               fill |-> [type |-> "pattern",
                         fg |-> <<"F", "F", "F", "F", "F", "F", "0", "0">>, bg |-> <<>>]]

SheetA == << << [formula |-> <<>>, value |-> VScalar(JStr(<<"x">>)), text |-> <<"x">>,
                 style |-> RedBold],
               [formula |-> <<>>, value |-> VScalar(JNum(4200)), text |-> <<"4", "2">>,
                 style |-> NoStyle] >> >>
SheetB == << << [formula |-> <<"A1", "+", "B1">>,
                 value |-> [VObject({"formula"}) EXCEPT !.formula = <<"A1", "+", "B1">>],
                 text |-> <<>>, style |-> YellowFill] >> >>

FileA == <<"a", ".xlsx">>
FileB == <<"b", ".xlsx">>
FileBad == <<"bad", ".xlsx">>
Files == {FileA, FileB, FileBad}
IsWorkbook(f) == f # FileBad
\* workbook.xlsx.load + workbook.worksheets[0]
Worksheet(f) == IF f = FileA THEN SheetA ELSE SheetB
DefaultFileName == <<"spreadsheet", ".xlsx">>

(***************************************************************************)
(* The widget (jspreadsheet-ce): it pads the data it is given to its       *)
(* minDimensions and renders one cell element per position.                *)
(***************************************************************************)
PadData(data) ==
    LET rows == Max(Len(data), MinRows)
        cols == Max(MaxCellCount(data), MinCols)
    IN  [r \in 1..rows |-> [c \in 1..cols |->
            IF r <= Len(data) /\ c <= Len(data[r]) THEN data[r][c] ELSE EmptyStr]]

NewDom(data) ==
    [a \in {encode_cell(rc[1] - 1, rc[2] - 1) :
                rc \in (1..Len(PadData(data))) \X (1..Len(PadData(data)[1]))} |-> <<>>]

(***************************************************************************)
(* DOM Style Applicator.                                                   *)
(***************************************************************************)
\* applyStyleToCellDom that sets the style attribute to the style string
applyStyleToCellDom_overwrite(dom, cellAddress, styleString) ==
    IF styleString = <<>> \/ cellAddress \notin DOMAIN dom THEN dom
    ELSE [dom EXCEPT ![cellAddress] = styleString]

\* applyStyleToCellDom on the cells `dom` of an instance
applyStyleToCellDom(dom, cellAddress, styleString) ==
    IF styleString = <<>> \/ cellAddress \notin DOMAIN dom THEN dom
    ELSE [dom EXCEPT ![cellAddress] =
              mergeStyleStrings(dom[cellAddress], parseStyleString(styleString))]

\* applyAllStylesToDom: every entry of the style map, each on its own cell
applyAllStylesToDom(dom, styleMap) ==
    [a \in DOMAIN dom |->
        IF a \in DOMAIN styleMap THEN applyStyleToCellDom(dom, a, styleMap[a])[a] ELSE dom[a]]

\* applyStylesAfterRender that asks for one animation frame only
applyStylesAfterRender_oneFrame(queue, inst, sty) ==
    IF inst = 0 THEN queue
    ELSE Append(queue, [inst |-> inst, sty |-> sty, frames |-> 0,
                        via |-> IF hasRAF THEN "raf2" ELSE "timer"])

\* applyStylesAfterRender(instance, styles): nothing for a null instance, else
\* a callback on the next animation frame (which asks for one more frame) or
\* a timer
applyStylesAfterRender(queue, inst, sty) ==
    IF inst = 0 THEN queue
    ELSE Append(queue, [inst |-> inst, sty |-> sty, frames |-> 0,
                        via |-> IF hasRAF THEN "raf1" ELSE "timer"])

(***************************************************************************)
(* initSpreadsheet(data, styles), lines 419-452, with `sid` the style      *)
(* object passed in and `queue` the scheduled restyles so far.  The widget *)
(* fires onload while it is being constructed, when                        *)
(* jspreadsheetInstance.current still holds the previous instance.         *)
(***************************************************************************)
\* initSpreadsheet that leaves stylesRef.current as it was
initSpreadsheet_keepStyles(data, sid, loadId, queue) ==
    LET new == Len(widgets) + 1
        onload == applyStylesAfterRender(queue, instance, stylesRef)
    IN  [widgets |-> Append(widgets, [style |-> stylesRef, dom |-> NewDom(data),
                                      load |-> loadId, data |-> data]),
         instance |-> new,
         grid |-> PadData(data),
         stylesRef |-> stylesRef,
         pending |-> applyStylesAfterRender(onload, new, stylesRef)]

initSpreadsheet(data, sid, loadId, queue) ==
    LET new == Len(widgets) + 1
        onload == applyStylesAfterRender(queue, instance, sid)
    IN  [widgets |-> Append(widgets, [style |-> sid, dom |-> NewDom(data), load |-> loadId,
                                      data |-> data]),
         instance |-> new,
         grid |-> PadData(data),
         stylesRef |-> sid,
         pending |-> applyStylesAfterRender(onload, new, sid)]

IdleChat == [stage |-> "idle", snapshot |-> <<>>, out |-> <<>>]
IdleCalc == [stage |-> "idle", arg |-> <<>>, upd |-> <<>>, out |-> <<>>, back |-> <<>>]
IdleCodec == [stage |-> "idle", cell |-> EmptyCell, value |-> EmptyStr,
              written |-> [kind |-> "value", formula |-> <<>>, value |-> JUndef],
              orig |-> EmptyStr, reloaded |-> FALSE]

\* the state of a session before the mount effect; nothing is rendered yet
SessionInit ==
    /\ widgets = <<>>
    /\ instance = 0
    /\ grid = <<>>
    /\ heap = <<EmptyStyles>>
    /\ stylesRef = 1
    /\ selectedRange = NoRange
    /\ fileName = DefaultFileName
    /\ isLoading = FALSE
    /\ loads = {}
    /\ loadLog = <<>>
    /\ pending = <<>>
    /\ lastRestyles = {}
    /\ saves = {}
    /\ downloaded = <<>>
    /\ chat = IdleChat
    /\ chatResult = "none"
    /\ alerts = 0
    /\ ops = 0
    /\ messages = <<>>

Init ==
    /\ SessionInit
    /\ hasRAF \in BOOLEAN
    /\ codec = IdleCodec
    /\ calc = IdleCalc

\* the mount effect, lines 455-458: initSpreadsheet() with data = [[]], styles = {}
Mount ==
    /\ instance = 0
    /\ LET sid == Len(heap) + 1
           st == initSpreadsheet(<< <<>> >>, sid, 0, pending)
       IN  /\ heap' = Append(heap, EmptyStyles)
           /\ widgets' = st.widgets
           /\ instance' = st.instance
           /\ grid' = st.grid
           /\ stylesRef' = st.stylesRef
           /\ pending' = st.pending
    /\ selectedRange' = NoRange
    /\ UNCHANGED <<fileName, isLoading, loads, loadLog, hasRAF, lastRestyles, saves,
                   downloaded, chat, chatResult, alerts, ops, codec, calc,
                   messages>>

\* handleNew, lines 581-586
handleNew ==
    /\ instance # 0
    /\ ops < MaxOps
    /\ fileName' = DefaultFileName
    /\ LET sid == Len(heap) + 1
           st == initSpreadsheet(<< <<>> >>, sid, 0, pending)
       IN  /\ heap' = heap \o <<EmptyStyles, EmptyStyles>>
           /\ widgets' = st.widgets
           /\ instance' = st.instance
           /\ grid' = st.grid
           /\ stylesRef' = sid + 1
           /\ pending' = st.pending
    /\ selectedRange' = NoRange
    /\ ops' = ops + 1
    /\ UNCHANGED <<isLoading, loads, loadLog, hasRAF, lastRestyles, saves, downloaded,
                   chat, chatResult, alerts, codec, calc,
                   messages>>

\* a load that starts now: its record and its entry in the log
StartLoad(kind, file) ==
    /\ loads' = loads \cup {[id |-> Len(loadLog) + 1, kind |-> kind, file |-> file]}
    /\ loadLog' = Append(loadLog, [status |-> "pending", overlap |-> {l.id : l \in loads}])

\* handleUpload up to its await, lines 469-476
handleUpload(file) ==
    /\ instance # 0
    /\ ops < MaxOps
    /\ ops' = ops + 1
    /\ fileName' = file
    /\ StartLoad("upload", file)
    /\ UNCHANGED <<widgets, instance, grid, heap, stylesRef, selectedRange, isLoading,
                   pending, hasRAF, lastRestyles, saves, downloaded, chat, chatResult,
                   alerts, codec, calc,
                   messages>>

\* the decode of load l resolved: lines 476-478 (handleUpload) and 490-492
\* (loadFromArrayBuffer, after which handleSendMessage returns its result)
LoadOk(l) ==
    /\ l \in loads
    /\ IsWorkbook(l.file)
    /\ LET res == extractDataAndStyles(Worksheet(l.file))
           sid == Len(heap) + 1
           st == initSpreadsheet(res.data, sid, l.id, pending)
       IN  /\ heap' = Append(heap, res.styles)
           /\ widgets' = st.widgets
           /\ instance' = st.instance
           /\ grid' = st.grid
           /\ stylesRef' = st.stylesRef
           /\ pending' = applyStylesAfterRender(st.pending, st.instance, st.stylesRef)
    /\ selectedRange' = NoRange
    /\ loads' = loads \ {l}
    /\ loadLog' = [loadLog EXCEPT ![l.id].status = "ok"]
    /\ IF l.kind = "buffer"
       THEN /\ chat' = IdleChat
            /\ chatResult' = "success"
            /\ isLoading' = FALSE
       ELSE UNCHANGED <<chat, chatResult, isLoading>>
    /\ UNCHANGED <<fileName, hasRAF, lastRestyles, saves, downloaded, alerts, ops, codec, calc>>
    /\ messages' = IF l.kind = "buffer"
                   THEN Append(messages, [role |-> "assistant", content |-> <<>>])
                   ELSE messages

\* a catch block that resets the editor to an empty sheet
LoadFail_reset(l) ==
    /\ l \in loads
    /\ ~IsWorkbook(l.file)
    /\ loads' = loads \ {l}
    /\ loadLog' = [loadLog EXCEPT ![l.id].status = "failed"]
    /\ alerts' = alerts + 1
    /\ LET sid == Len(heap) + 1
           st == initSpreadsheet(<< <<>> >>, sid, 0, pending)
       IN  /\ heap' = Append(heap, EmptyStyles)
           /\ widgets' = st.widgets
           /\ instance' = st.instance
           /\ grid' = st.grid
           /\ stylesRef' = st.stylesRef
           /\ pending' = st.pending
    /\ selectedRange' = NoRange
    /\ UNCHANGED <<fileName, isLoading, hasRAF, lastRestyles, saves, downloaded, chat,
                   chatResult, ops, codec, calc>>
    /\ messages' = IF l.kind = "buffer"
                   THEN Append(messages, [role |-> "error", content |-> <<>>])
                   ELSE messages

\* the decode of load l rejected: the catch blocks, lines 479-481 and 493-495
\* (the rethrown error is caught by handleSendMessage, lines 570-577)
LoadFail(l) ==
    /\ l \in loads
    /\ ~IsWorkbook(l.file)
    /\ loads' = loads \ {l}
    /\ loadLog' = [loadLog EXCEPT ![l.id].status = "failed"]
    /\ IF l.kind = "buffer"
       THEN /\ chat' = IdleChat
            /\ chatResult' = "error"
            /\ isLoading' = FALSE
            /\ UNCHANGED alerts
       ELSE /\ alerts' = alerts + 1
            /\ UNCHANGED <<chat, chatResult, isLoading>>
    /\ UNCHANGED <<widgets, instance, grid, heap, stylesRef, selectedRange, fileName,
                   pending, hasRAF, lastRestyles, saves, downloaded, ops, codec, calc>>
    /\ messages' = IF l.kind = "buffer"
                   THEN Append(messages, [role |-> "error", content |-> <<>>])
                   ELSE messages

(***************************************************************************)
(* Editing: selection and cell edits happen in the widget, formatting in   *)
(* the toolbar.                                                            *)
(***************************************************************************)
\* onselection, lines 446-448
Select(x1, y1, x2, y2) ==
    /\ instance # 0
    /\ selectedRange # [set |-> TRUE, x1 |-> x1, y1 |-> y1, x2 |-> x2, y2 |-> y2]
    /\ selectedRange' = [set |-> TRUE, x1 |-> x1, y1 |-> y1, x2 |-> x2, y2 |-> y2]
    /\ UNCHANGED <<widgets, instance, grid, heap, stylesRef, fileName, isLoading, loads,
                   loadLog, pending, hasRAF, lastRestyles, saves, downloaded, chat,
                   chatResult, alerts, ops, codec, calc,
                   messages>>

EditValues == {JStr(<<"=", "A1">>), JStr(<<"7">>)}

\* the user types a value into a cell of the widget
EditCell(r, c, val) ==
    /\ instance # 0
    /\ ops < MaxOps
    /\ grid[r][c] # val
    /\ grid' = [grid EXCEPT ![r][c] = val]
    /\ ops' = ops + 1
    /\ UNCHANGED <<widgets, instance, heap, stylesRef, selectedRange, fileName, isLoading,
                   loads, loadLog, pending, hasRAF, lastRestyles, saves, downloaded, chat,
                   chatResult, alerts, codec, calc,
                   messages>>

Blue == <<"#", "0", "0", "0", "0", "f", "f">>
\* the update maps the toolbar handlers pass, lines 617-653
ToolbarUpdates ==
    { << [k |-> <<"background-color">>, v |-> Blue] >>,
      << [k |-> <<"font-family">>, v |-> <<"Calibri">>] >>,
      << [k |-> <<"font-weight">>, v |-> <<"normal">>] >> }

\* lines 605-608: { ...styleUpdates } with font-family replaced by its fallback list
NormalizeUpdates(styleUpdates) ==
    [i \in 1..Len(styleUpdates) |->
        IF styleUpdates[i].k = <<"font-family">> /\ styleUpdates[i].v # <<>>
        THEN [k |-> styleUpdates[i].k, v |-> buildFontFamily(styleUpdates[i].v)]
        ELSE styleUpdates[i]]

\* the addresses of the selected rectangle, lines 597-604
SelectedAddresses(range) ==
    {encode_cell(row, col) :
        row \in Min(range.y1, range.y2)..Max(range.y1, range.y2),
        col \in Min(range.x1, range.x2)..Max(range.x1, range.x2)}

\* the style map after applyStyleToSelection, lines 610-611
StylesAfterUpdate(styleMap, range, styleUpdates) ==
    [a \in DOMAIN styleMap \cup SelectedAddresses(range) |->
        IF a \in SelectedAddresses(range)
        THEN mergeStyleStrings(StyleAt(styleMap, a), NormalizeUpdates(styleUpdates))
        ELSE styleMap[a]]

\* applyStyleToSelection, lines 592-615
applyStyleToSelection(styleUpdates) ==
    /\ instance # 0
    /\ selectedRange.set
    /\ ops < MaxOps
    /\ LET after == StylesAfterUpdate(styles, selectedRange, styleUpdates)
       IN  /\ heap' = [heap EXCEPT ![stylesRef] = after]
           /\ widgets' = [widgets EXCEPT ![instance].dom =
                  [a \in DOMAIN @ |->
                      IF a \in SelectedAddresses(selectedRange)
                      THEN applyStyleToCellDom(@, a, after[a])[a] ELSE @[a]]]
    /\ ops' = ops + 1
    /\ UNCHANGED <<instance, grid, stylesRef, selectedRange, fileName, isLoading, loads,
                   loadLog, pending, hasRAF, lastRestyles, saves, downloaded, chat,
                   chatResult, alerts, codec, calc,
                   messages>>

(***************************************************************************)
(* Restyles.  One animation frame runs every callback registered before it *)
(* in registration order: a first-frame callback registers applyNow for    *)
(* the next frame, a second-frame callback is applyNow.                    *)
(***************************************************************************)
\* applyNow that reads jspreadsheetInstance.current when it fires
RestyleTarget_current(e) == instance

\* the instance whose cells applyNow restyles: the one captured at line 304
RestyleTarget(e) == e.inst
\* the style map applyNow applies: the object captured at line 304, as it is now
RestyleStyles(e) == heap[e.sty]

RECURSIVE RunRestyles(_, _)
RunRestyles(ws, entries) ==
    IF entries = <<>> THEN ws
    ELSE LET e == Head(entries)
         IN  RunRestyles([ws EXCEPT ![RestyleTarget(e)].dom =
                              applyAllStylesToDom(@, RestyleStyles(e))],
                         Tail(entries))

IsApplyNow(e) == e.via = "raf2"
IsFirstFrame(e) == e.via = "raf1"

RestyleRecord(e) ==
    [inst |-> RestyleTarget(e), sty |-> e.sty, via |-> e.via,
     frames |-> IF e.via = "timer" THEN 0 ELSE e.frames + 1,
     curInst |-> instance, curSty |-> stylesRef,
     created |-> \E w \in 1..Len(widgets) : widgets[w].style = e.sty]

AnimationFrame ==
    /\ hasRAF
    /\ pending # <<>>
    /\ LET ran == SelectSeq(pending, IsApplyNow)
           again == SelectSeq(pending, IsFirstFrame)
       IN  /\ widgets' = RunRestyles(widgets, ran)
           /\ pending' = [i \in 1..Len(again) |->
                             [again[i] EXCEPT !.via = "raf2", !.frames = @ + 1]]
           /\ lastRestyles' = {RestyleRecord(ran[i]) : i \in 1..Len(ran)}
    /\ UNCHANGED <<instance, grid, heap, stylesRef, selectedRange, fileName, isLoading,
                   loads, loadLog, hasRAF, saves, downloaded, chat, chatResult, alerts,
                   ops, codec, calc,
                   messages>>

\* setTimeout(applyNow, 10): the timers fire in the order they were set
TimerFire ==
    /\ ~hasRAF
    /\ pending # <<>>
    /\ widgets' = RunRestyles(widgets, <<Head(pending)>>)
    /\ pending' = Tail(pending)
    /\ lastRestyles' = {RestyleRecord(Head(pending))}
    /\ UNCHANGED <<instance, grid, heap, stylesRef, selectedRange, fileName, isLoading,
                   loads, loadLog, hasRAF, saves, downloaded, chat, chatResult, alerts,
                   ops, codec, calc,
                   messages>>

(***************************************************************************)
(* Save: handleDownload, lines 500-521.                                    *)
(***************************************************************************)
handleDownload ==
    /\ instance # 0
    /\ ops < MaxOps
    /\ saves' = saves \cup {[id |-> ops,
                             content |-> dataToExcelBuffer(grid, styles),
                             name |-> fileName]}
    /\ ops' = ops + 1
    /\ UNCHANGED <<widgets, instance, grid, heap, stylesRef, selectedRange, fileName,
                   isLoading, loads, loadLog, pending, hasRAF, lastRestyles, downloaded,
                   chat, chatResult, alerts, codec, calc,
                   messages>>

\* writeBuffer resolved: lines 509-516
SaveOk(sv) ==
    /\ sv \in saves
    /\ saves' = saves \ {sv}
    /\ downloaded' = [name |-> IF EndsWith(sv.name, ".xlsx") THEN sv.name
                               ELSE sv.name \o <<".xlsx">>,
                      content |-> sv.content]
    /\ UNCHANGED <<widgets, instance, grid, heap, stylesRef, selectedRange, fileName,
                   isLoading, loads, loadLog, pending, hasRAF, lastRestyles, chat,
                   chatResult, alerts, ops, codec, calc,
                   messages>>

\* a catch block that also drops the style map
SaveFail_clear(sv) ==
    /\ sv \in saves
    /\ saves' = saves \ {sv}
    /\ alerts' = alerts + 1
    /\ heap' = [heap EXCEPT ![stylesRef] = EmptyStyles]
    /\ UNCHANGED <<widgets, instance, grid, stylesRef, selectedRange, fileName,
                   isLoading, loads, loadLog, pending, hasRAF, lastRestyles, downloaded,
                   chat, chatResult, ops, codec, calc,
                   messages>>

\* writeBuffer rejected: lines 517-520
SaveFail(sv) ==
    /\ sv \in saves
    /\ saves' = saves \ {sv}
    /\ alerts' = alerts + 1
    /\ UNCHANGED <<widgets, instance, grid, heap, stylesRef, selectedRange, fileName,
                   isLoading, loads, loadLog, pending, hasRAF, lastRestyles, downloaded,
                   chat, chatResult, ops, codec, calc,
                   messages>>

(***************************************************************************)
(* Chat: handleSendMessage, lines 535-579, called by ChatSidebar's         *)
(* handleSubmit.                                                           *)
(***************************************************************************)
\* lines 536-540: setIsLoading(true), getSpreadsheetAsBlob up to writeBuffer
handleSendMessage ==
    /\ instance # 0
    /\ ops < MaxOps
    /\ isLoading' = TRUE
    /\ chat' = [stage |-> "encoding", snapshot |-> dataToExcelBuffer(grid, styles),
                out |-> <<>>]
    /\ chatResult' = "none"
    /\ ops' = ops + 1
    /\ UNCHANGED <<widgets, instance, grid, heap, stylesRef, selectedRange, fileName,
                   loads, loadLog, pending, hasRAF, lastRestyles, saves, downloaded,
                   alerts, codec, calc>>

\* a catch block with no finally: the loading flag stays as it is
ChatThrows_noFinally ==
    /\ chat' = IdleChat
    /\ chatResult' = "error"
    /\ isLoading' = isLoading

\* the catch and finally blocks, lines 570-578
ChatThrows ==
    /\ chat' = IdleChat
    /\ chatResult' = "error"
    /\ isLoading' = FALSE

\* handleSendMessage with no widget instance: getSpreadsheetAsBlob throws at
\* line 526, the catch block returns the error and finally clears the flag
handleSendMessageNoInstance ==
    /\ instance = 0
    /\ ops < MaxOps
    /\ ChatThrows
    /\ ops' = ops + 1
    /\ UNCHANGED <<widgets, instance, grid, heap, stylesRef, selectedRange, fileName,
                   loads, loadLog, pending, hasRAF, lastRestyles, saves, downloaded,
                   alerts, codec, calc>>

(***************************************************************************)
(* ChatSidebar: handleSubmit, ChatSidebar.jsx lines 36-69.  `input` is the *)
(* text in the input box.  The user message is appended before the call of *)
(* onSendMessage (handleSendMessage), the assistant or error message when  *)
(* its result arrives.                                                     *)
(***************************************************************************)
ChatInputs == {<<>>, <<SP>>, <<SP, "hi">>}

UserMessage(input) == [role |-> "user", content |-> Trim(input)]

\* handleSubmit without the test of line 38
handleSubmit_noGuard(input) ==
    \/ /\ handleSendMessage
       /\ messages' = Append(messages, UserMessage(input))
    \/ /\ handleSendMessageNoInstance
       /\ messages' = messages \o <<UserMessage(input), [role |-> "error", content |-> <<>>]>>

handleSubmit(input) ==
    /\ Trim(input) # <<>>
    /\ ~isLoading
    /\ \/ /\ handleSendMessage
          /\ messages' = Append(messages, UserMessage(input))
       \/ /\ handleSendMessageNoInstance
          /\ messages' = messages \o <<UserMessage(input), [role |-> "error", content |-> <<>>]>>

\* writeBuffer resolved and the request is posted, lines 531-552
ChatEncoded ==
    /\ chat.stage = "encoding"
    /\ chat' = [chat EXCEPT !.stage = "posting"]
    /\ UNCHANGED <<widgets, instance, grid, heap, stylesRef, selectedRange, fileName,
                   isLoading, loads, loadLog, pending, hasRAF, lastRestyles, saves,
                   downloaded, chatResult, alerts, ops, codec, calc,
                   messages>>

\* a catch block that also empties the open style map
ChatFails_clear ==
    /\ chat.stage \in {"encoding", "posting", "fetching"}
    /\ ChatThrows
    /\ heap' = [heap EXCEPT ![stylesRef] = EmptyStyles]
    /\ UNCHANGED <<widgets, instance, grid, stylesRef, selectedRange, fileName,
                   loads, loadLog, pending, hasRAF, lastRestyles, saves, downloaded,
                   alerts, ops, codec, calc>>
    /\ messages' = Append(messages, [role |-> "error", content |-> <<>>])

\* writeBuffer, fetch or response.json() rejected
ChatFails ==
    /\ chat.stage \in {"encoding", "posting", "fetching"}
    /\ ChatThrows
    /\ UNCHANGED <<widgets, instance, grid, heap, stylesRef, selectedRange, fileName,
                   loads, loadLog, pending, hasRAF, lastRestyles, saves, downloaded,
                   alerts, ops, codec, calc>>
    /\ messages' = Append(messages, [role |-> "error", content |-> <<>>])

\* the agent answered with success: false, lines 554-556 and 569
ChatRefused ==
    /\ chat.stage = "posting"
    /\ chat' = IdleChat
    /\ chatResult' = "failure"
    /\ isLoading' = FALSE
    /\ UNCHANGED <<widgets, instance, grid, heap, stylesRef, selectedRange, fileName,
                   loads, loadLog, pending, hasRAF, lastRestyles, saves, downloaded,
                   alerts, ops, codec, calc>>
    /\ messages' = Append(messages, [role |-> "error", content |-> <<>>])

\* the agent answered with success: true and an output file, lines 556-558
ChatAccepted(file) ==
    /\ chat.stage = "posting"
    /\ chat' = [chat EXCEPT !.stage = "fetching", !.out = file]
    /\ UNCHANGED <<widgets, instance, grid, heap, stylesRef, selectedRange, fileName,
                   isLoading, loads, loadLog, pending, hasRAF, lastRestyles, saves,
                   downloaded, chatResult, alerts, ops, codec, calc,
                   messages>>

\* the output file is fetched and loadFromArrayBuffer is called, lines 558-560
ChatFetched ==
    /\ chat.stage = "fetching"
    /\ chat' = [chat EXCEPT !.stage = "loading"]
    /\ StartLoad("buffer", chat.out)
    /\ UNCHANGED <<widgets, instance, grid, heap, stylesRef, selectedRange, fileName,
                   isLoading, pending, hasRAF, lastRestyles, saves, downloaded,
                   chatResult, alerts, ops, codec, calc,
                   messages>>

\* the positions of the widget's cells, as (column, row)
Coords == {xy \in (0..5) \X (0..5) : xy[2] < Len(grid) /\ xy[1] < Len(grid[1])}

(***************************************************************************)
(* The reader and the writer applied to single cells (specification        *)
(* CodecSpec).  codec = [stage, cell, value, written, orig, reloaded]:     *)
(*   stage "cell"     `cell` is a worksheet cell about to be read          *)
(*   stage "read"     `value` is the display value the reader gave `cell`  *)
(*   stage "value"    `value` is a grid value about to be written          *)
(*   stage "written"  `written` is what the writer stored for `orig`       *)
(* `reloaded` tells that `cell` is a written cell loaded again.            *)
(***************************************************************************)
F1 == <<"A1", "+", "B1">>
F2 == <<"SUM", "(", "A1", ")">>
F3 == <<"B2", "*", "2">>

ResultValues == {JUndef, JNull, JNum(500), JStr(<<"#N/A">>)}

\* the objects ExcelJS can hand out as cell.value, and more: every set of own
\* keys with an empty and a non-empty text for each field
ObjectValues ==
    {[VObject(keys) EXCEPT
         !.formula = IF "formula" \in keys THEN f ELSE <<>>,
         !.sharedFormula = IF "sharedFormula" \in keys THEN F3 ELSE <<>>,
         !.richIsArray = "richText" \in keys /\ arr,
         !.richText = IF "richText" \in keys /\ arr
                      THEN << <<"rich">>, <<>>, <<SP, "text">> >> ELSE <<>>,
         !.hyperlink = IF "hyperlink" \in keys THEN <<"http", ":", "//x">> ELSE <<>>,
         !.text = IF "hyperlink" \in keys THEN txt ELSE <<>>,
         !.result = IF "result" \in keys THEN res ELSE JUndef] :
        keys \in SUBSET {"formula", "sharedFormula", "richText", "hyperlink", "result"},
        f \in {<<>>, F2}, arr \in BOOLEAN, txt \in {<<>>, <<"link">>},
        res \in ResultValues}

ScalarValues ==
    {JNull, JUndef, EmptyStr, JStr(<<"x">>), JStr(<<"4", "2">>), JStr(<<"=", "x">>),
     JNum(4200), JNum(0), JBool(TRUE), JBool(FALSE)}

ReaderCells ==
    {[formula |-> f, value |-> v, text |-> t, style |-> NoStyle] :
        f \in {<<>>, F1},
        v \in ObjectValues \cup {VScalar(x) : x \in ScalarValues} \cup {VDate},
        t \in {<<>>, <<"txt">>}}

GridValues ==
    {JStr(<<"=">> \o F1), JStr(<<"=">> \o F2), JStr(<<"=">>), JStr(<<SP, "=", "A1">>),
     JStr(<<"4", "2">>), JStr(<<"4", "2", "abc">>), EmptyStr, JStr(<<SP>>),
     JStr(<<SP, "4", "2", SP>>), JStr(<<"4", ".", "5">>), JStr(<<"-", "7">>),
     JStr(<<"+", "3">>), JStr(<<".", "5">>), JStr(<<"1", ".", "2", ".", "3">>),
     JStr(<<"abc">>), JStr(<<"Infinity">>), JStr(<<"-", "Infinity">>), JStr(<<"NaN">>),
     JNum(4200), JNum(0), JNum(0 - 150), JNum(1234), JNull, JObj}

CodecInit ==
    /\ SessionInit
    /\ hasRAF = TRUE
    /\ calc = IdleCalc
    /\ \/ \E c \in ReaderCells : codec = [IdleCodec EXCEPT !.stage = "cell", !.cell = c]
       \/ \E g \in GridValues : codec = [IdleCodec EXCEPT !.stage = "value", !.value = g]

\* extractDataAndStyles on one cell, lines 337-364
ReadCell ==
    /\ codec.stage = "cell"
    /\ codec' = [codec EXCEPT !.stage = "read", !.value = DisplayValue(codec.cell)]
    /\ UNCHANGED <<sessionVars, hasRAF, calc>>

\* dataToExcelBuffer on one grid value, lines 381-392
WriteCell ==
    /\ codec.stage \in {"read", "value"}
    /\ codec' = [codec EXCEPT !.stage = "written", !.written = WriteValue(codec.value),
                              !.orig = codec.value, !.reloaded = FALSE]
    /\ UNCHANGED <<sessionVars, hasRAF, calc>>

\* the cell ExcelJS hands out after writeBuffer and load: what the writer stored
Reload(w) ==
    IF w.kind = "formula"
    THEN [formula |-> w.formula,
          value |-> [VObject({"formula"}) EXCEPT !.formula = w.formula],
          text |-> <<>>, style |-> NoStyle]
    ELSE [formula |-> <<>>,
          value |-> IF w.value.t = "undef" THEN VScalar(JNull) ELSE VScalar(w.value),
          text |-> IF w.value.t \in {"null", "undef"} THEN <<>> ELSE ToStr(w.value),
          style |-> NoStyle]

ReloadCell ==
    /\ codec.stage = "written"
    /\ codec' = [codec EXCEPT !.stage = "cell", !.cell = Reload(codec.written),
                              !.reloaded = TRUE]
    /\ UNCHANGED <<sessionVars, hasRAF, calc>>

CodecNext ==
    \/ ReadCell
    \/ WriteCell
    \/ ReloadCell

CodecSpec == CodecInit /\ [][CodecNext]_vars

OpenActions ==
    \/ Mount
    \/ handleNew
    \/ \E file \in Files : handleUpload(file)
    \/ \E l \in loads : LoadOk(l)
    \/ \E l \in loads : LoadFail(l)

FormatActions ==
    \/ \E a \in Coords, b \in Coords : Select(a[1], a[2], b[1], b[2])
    \/ \E u \in ToolbarUpdates : applyStyleToSelection(u)

EditActions ==
    \E a \in Coords, val \in EditValues : EditCell(a[2] + 1, a[1] + 1, val)

RestyleActions ==
    \/ AnimationFrame
    \/ TimerFire

SaveActions ==
    \/ handleDownload
    \/ \E sv \in saves : SaveOk(sv)
    \/ \E sv \in saves : SaveFail(sv)

ChatActions ==
    \/ \E input \in ChatInputs : handleSubmit(input)
    \/ ChatEncoded
    \/ ChatFails
    \/ ChatRefused
    \/ \E file \in Files : ChatAccepted(file)
    \/ ChatFetched

\* the whole editor
Next ==
    \/ OpenActions
    \/ FormatActions
    \/ EditActions
    \/ RestyleActions
    \/ SaveActions
    \/ ChatActions

Spec == Init /\ [][Next]_vars

\* opening documents: mount, New, Open, and the chat's load of the agent's file
OpenSpec == Init /\ [][OpenActions \/ ChatActions \/ FormatActions]_vars

\* opening documents and the deferred restyles
RestyleSpec == Init /\ [][OpenActions \/ RestyleActions]_vars

\* editing and saving one open document
EditSpec ==
    Init /\ [][OpenActions \/ FormatActions \/ EditActions \/ SaveActions \/ ChatActions]_vars

(***************************************************************************)
(* Properties.                                                             *)
(***************************************************************************)
LoadIds == 1..Len(loadLog)
\* the load that created the instance now open (0 for mount and New)
OpenLoad == IF instance = 0 THEN 0 ELSE widgets[instance].load

\* C1: when a load b was started while an earlier load a was still decoding
\* and both have completed, the open document is b's, not a's, whichever of the
\* two finished decoding first.
C1_LaterLoadWins ==
    \A a \in LoadIds, b \in LoadIds :
        (/\ a < b
         /\ a \in loadLog[b].overlap
         /\ loadLog[a].status = "ok"
         /\ loadLog[b].status = "ok"
         /\ OpenLoad \in {a, b}) => OpenLoad = b

\* C2: a load whose decode fails is reported (an alert for handleUpload, an
\* error result for the chat that called loadFromArrayBuffer) and leaves the
\* grid, every style map, stylesRef and the widget instances as they were.
C2_FailedLoadKeepsDocument ==
    [][/\ \A l \in loads :
             LoadFail(l) =>
                 /\ UNCHANGED <<grid, heap, stylesRef, instance, widgets, pending>>
                 /\ l.kind = "upload" => alerts' = alerts + 1
                 /\ l.kind = "buffer" => (chatResult' = "error" /\ ~isLoading')
       /\ (ChatFetched \/ \E f \in Files : handleUpload(f)) =>
             UNCHANGED <<grid, heap, stylesRef, instance, widgets, pending>>]_vars

\* a load has failed while a styled document stays open
C2_Witness ==
    /\ \E i \in LoadIds : loadLog[i].status = "failed"
    /\ alerts > 0
    /\ instance # 0
    /\ DOMAIN styles # {}

\* C3 as stated: every applyAllStylesToDom call runs with the widget instance
\* and the style map of the most recent load.
C3_RestyleUsesLatest ==
    \A e \in lastRestyles : e.inst = e.curInst /\ e.sty = e.curSty

\* the restyles the next frame or timer step runs, in order
Due == IF hasRAF THEN SelectSeq(pending, IsApplyNow) ELSE <<Head(pending)>>

RECURSIVE DomAfter(_, _, _)
\* the cells `dom` of instance i after those of `entries` that were scheduled for i
DomAfter(dom, i, entries) ==
    IF entries = <<>> THEN dom
    ELSE DomAfter(IF Head(entries).inst = i
                  THEN applyAllStylesToDom(dom, heap[Head(entries).sty]) ELSE dom,
                  i, Tail(entries))

\* C3, amended: a frame or timer step changes no style map, and changes the
\* cells of the open instance only by the restyles that were scheduled for that
\* instance; a restyle scheduled for a replaced instance leaves them alone.
C3_StaleRestyleHarmless ==
    [][(AnimationFrame \/ TimerFire) =>
          /\ UNCHANGED <<heap, stylesRef, grid, instance>>
          /\ widgets'[instance].dom = DomAfter(widgets[instance].dom, instance, Due)]_vars

\* a restyle for a replaced document has run on the replaced instance's cells
C3_Witness ==
    \E e \in lastRestyles :
        /\ e.inst # e.curInst
        /\ e.sty # e.curSty
        /\ e.curInst = instance
        /\ DOMAIN heap[e.sty] # {}
        /\ DOMAIN styles # {}
        /\ \E a \in DOMAIN widgets[e.inst].dom : widgets[e.inst].dom[a] # <<>>

\* C4: applyAllStylesToDom runs only for a style map whose widget instance has
\* been created, on an instance that exists, and with requestAnimationFrame
\* only in the second animation frame after the scheduling call (else by timer).
C4_RestyleAfterRender ==
    \A e \in lastRestyles :
        /\ e.created
        /\ e.inst \in 1..Len(widgets)
        /\ hasRAF => (e.via = "raf2" /\ e.frames = 2)
        /\ ~hasRAF => e.via = "timer"

\* a restyle of the open document has run in its second animation frame
C4_Witness ==
    \E e \in lastRestyles :
        /\ e.via = "raf2"
        /\ e.frames = 2
        /\ e.inst = instance
        /\ DOMAIN heap[e.sty] # {}

\* the effect of an update map on one address: every key of `expected` is
\* carried with its value, every other property the address had is kept
Carries(before, after, expected) ==
    LET old == parseStyleString(before)
        new == parseStyleString(after)
    IN  /\ \A i \in 1..Len(expected) :
              HasKey(new, expected[i].k) /\ Get(new, expected[i].k) = expected[i].v
        /\ \A i \in 1..Len(old) :
              ~HasKey(expected, old[i].k) =>
                  (HasKey(new, old[i].k) /\ Get(new, old[i].k) = old[i].v)

FrameEffect(expected) ==
    /\ stylesRef' = stylesRef
    /\ \A h \in 1..Len(heap) : h # stylesRef => heap'[h] = heap[h]
    /\ \A a \in DOMAIN styles \cup DOMAIN heap'[stylesRef] :
          IF a \in SelectedAddresses(selectedRange)
          THEN Carries(StyleAt(styles, a), StyleAt(heap'[stylesRef], a), expected)
          ELSE a \in DOMAIN styles /\ a \in DOMAIN heap'[stylesRef]
               /\ heap'[stylesRef][a] = styles[a]

\* C5 as stated: applyStyleToSelection with update map u keeps, at each
\* selected address, every property that is not a key of u, carries u's own
\* value for every key of u, and changes no other address.
C5_UpdateCarriesGivenValues ==
    [][\A u \in ToolbarUpdates : applyStyleToSelection(u) => FrameEffect(u)]_vars

\* what applyStyleToSelection stores for u: a font-family is stored as the
\* fallback list built for it
StoredUpdates(u) ==
    [i \in 1..Len(u) |->
        IF u[i].k = <<"font-family">>
        THEN [k |-> u[i].k, v |-> buildFontFamily(u[i].v)] ELSE u[i]]

\* C5, amended: as stated, except that for the key font-family the value
\* carried is the fallback list buildFontFamily makes of u's value.
C5_UpdateFrameEffect ==
    [][\A u \in ToolbarUpdates :
          applyStyleToSelection(u) => FrameEffect(StoredUpdates(u))]_vars

\* a toolbar update was merged into a style the document brought along
C5_Witness ==
    \E a \in DOMAIN styles :
        LET m == parseStyleString(styles[a])
        IN  /\ HasKey(m, <<"color">>)
            /\ HasKey(m, <<"font-weight">>)
            /\ HasKey(m, <<"background-color">>) \/ HasKey(m, <<"font-family">>)

\* C6: every step of a save (the snapshot, the download, the failure) leaves
\* the grid, the style maps and stylesRef unchanged, so the snapshot a retry
\* takes is the one the failed save took.
C6_SaveKeepsDocument ==
    [][((\E sv \in saves : SaveOk(sv) \/ SaveFail(sv)) \/ handleDownload
            \/ handleSendMessage \/ ChatEncoded)
          => (/\ UNCHANGED <<grid, heap, stylesRef>>
              /\ dataToExcelBuffer(grid', heap'[stylesRef']) = dataToExcelBuffer(grid, styles))]_vars

\* a save of a styled, edited document has failed
C6_Witness ==
    /\ alerts > 0
    /\ \A i \in LoadIds : loadLog[i].status # "failed"
    /\ saves = {}
    /\ DOMAIN styles # {}
    /\ \E a \in Coords : grid[a[2] + 1][a[1] + 1] \in EditValues

\* the style map the reader produces for a worksheet, cell by cell
ReaderStyleAt(ws, a) ==
    LET rc == decode_cell(a)
    IN  excelCellStyleToCss(GetCell(ws, rc[1] + 1, rc[2] + 1).style)

AllAddresses == {encode_cell(rc[1], rc[2]) : rc \in (0..5) \X (0..5)}

\* C7: a successful open installs exactly the style map the reader produced
\* for that buffer (nothing of the style map open before it) together with the
\* buffer's grid, and New installs an empty style map.
C7_WholesaleReplace ==
    [][/\ \A l \in loads :
             LoadOk(l) =>
                 /\ \A a \in AllAddresses :
                        StyleAt(heap'[stylesRef'], a) = ReaderStyleAt(Worksheet(l.file), a)
                 /\ \A a \in DOMAIN heap'[stylesRef'] : heap'[stylesRef'][a] # <<>>
                 /\ grid' = PadData(extractDataAndStyles(Worksheet(l.file)).data)
       /\ handleNew => (DOMAIN heap'[stylesRef'] = {} /\ grid' = PadData(<< <<>> >>))]_vars

\* a document was opened over one whose style map held toolbar edits
C7_Witness ==
    /\ OpenLoad # 0
    /\ DOMAIN styles # {}
    /\ \E h \in 1..Len(heap) :
          /\ h # stylesRef
          /\ \E a \in DOMAIN heap[h] :
                /\ HasKey(parseStyleString(heap[h][a]), <<"background-color">>)
                /\ Get(parseStyleString(heap[h][a]), <<"background-color">>) = Blue
                /\ LET m == parseStyleString(StyleAt(styles, a))
                   IN  ~(HasKey(m, <<"background-color">>)
                           /\ Get(m, <<"background-color">>) = Blue)

\* the formula a cell carries: the direct formula, else the one of its value
CarriesFormula(cell) ==
    \/ cell.formula # <<>>
    \/ IsObject(cell.value) /\ cell.value.keys \cap {"formula", "sharedFormula"} # {}
FormulaText(cell) ==
    IF cell.formula # <<>> THEN cell.formula
    ELSE IF cell.value.formula # <<>> THEN cell.value.formula
    ELSE cell.value.sharedFormula

\* the string form String(cellValue ?? '') of a grid value
StringForm(g) == IF g.t \in {"null", "undef"} THEN <<>> ELSE ToStr(g)

\* C8: for every formula text f the reader displays a cell carrying f as
\* "=" + f, the writer stores a grid value whose string form is "=" + f as the
\* formula f, and reading back what was written gives the grid value "=" + f.
C8_FormulaMarkerSymmetric ==
    /\ (codec.stage = "read" /\ CarriesFormula(codec.cell)) =>
           codec.value = JStr(<<"=">> \o FormulaText(codec.cell))
    /\ (codec.stage = "written" /\ StartsWith(StringForm(codec.orig), "=")) =>
           /\ codec.written.kind = "formula"
           /\ <<"=">> \o codec.written.formula = StringForm(codec.orig)
    /\ (codec.stage = "read" /\ codec.reloaded /\ StartsWith(StringForm(codec.orig), "=")) =>
           codec.value = JStr(StringForm(codec.orig))

\* C9: a grid value whose string form does not start with "=" is stored as a
\* number exactly when its trimmed string form is non-empty and parses as a
\* finite number, and is stored unchanged in every other case.
C9_NumericCoercion ==
    (codec.stage = "written" /\ ~StartsWith(StringForm(codec.orig), "=")) =>
        LET str == StringForm(codec.orig)
            parsed == StringToNumber(str)
        IN  /\ codec.written.kind = "value"
            /\ IF Trim(str) # <<>> /\ parsed.t = "num"
               THEN codec.written.value = parsed
               ELSE codec.written.value = codec.orig

\* C10: the reader chooses the display value by the precedence formula > rich
\* text > hyperlink > cached result > other object (a date included) > scalar:
\* each line below applies only when no line above it does.  An absent value
\* (null, undefined) is displayed as the empty string.
C10_DisplayPrecedence ==
    codec.stage = "read" =>
        LET cell == codec.cell
            v == cell.value
            shown == codec.value
            direct == cell.formula # <<>>
            own == IsObject(v) /\ "formula" \in v.keys /\ v.formula # <<>>
            shared == IsObject(v) /\ "sharedFormula" \in v.keys /\ v.sharedFormula # <<>>
            anyFormula == direct \/ own \/ shared
            absent == v.t \in {"null", "undef"}
            rich == IsObject(v) /\ v.richIsArray
            link == IsObject(v) /\ "hyperlink" \in v.keys
            cached == IsObject(v) /\ "result" \in v.keys /\ v.result.t # "undef"
        IN  /\ direct => shown = JStr(<<"=">> \o cell.formula)
            /\ (~direct /\ own) => shown = JStr(<<"=">> \o v.formula)
            /\ (~direct /\ ~own /\ shared) => shown = JStr(<<"=">> \o v.sharedFormula)
            /\ (~anyFormula /\ absent) => shown = EmptyStr
            /\ (~anyFormula /\ rich) => shown = JStr(ConcatRuns(v.richText))
            /\ (~anyFormula /\ ~rich /\ link) =>
                   shown = JStr(IF v.text # <<>> THEN v.text ELSE v.hyperlink)
            /\ (~anyFormula /\ ~rich /\ ~link /\ cached) =>
                   shown = (IF v.result.t = "null" THEN EmptyStr ELSE v.result)
            /\ (~anyFormula /\ ~rich /\ ~link /\ ~cached /\ IsObject(v)) =>
                   shown = JStr(cell.text)
            /\ (~anyFormula /\ ~absent /\ ~IsObject(v)) =>
                   shown = [t |-> v.t, s |-> v.s, n |-> v.n]

\* a cell holding both rich text and a hyperlink has been read as its rich text
C10_Witness ==
    /\ codec.stage = "read"
    /\ ~codec.reloaded
    /\ codec.cell.formula = <<>>
    /\ {"richText", "hyperlink"} \subseteq codec.cell.value.keys
    /\ codec.cell.value.keys \cap {"formula", "sharedFormula"} = {}
    /\ codec.cell.value.richIsArray
    /\ codec.cell.value.text # <<>>
    /\ codec.value = JStr(<<"rich", SP, "text">>)

(***************************************************************************)
(* The pure functions evaluated on their own.  Each specification below    *)
(* starts with an argument in calc.arg and its steps apply the functions.  *)
(***************************************************************************)
SeqsUpTo(S, n) == UNION {[1..k -> S] : k \in 0..n}

CalcInit(stage, args) ==
    /\ SessionInit
    /\ hasRAF = TRUE
    /\ codec = IdleCodec
    /\ \E x \in args : calc = [IdleCalc EXCEPT !.stage = stage, !.arg = x]

\* the worksheets handed to extractDataAndStyles: ragged, empty, with styled
\* and with null-valued cells
SheetCells ==
    { EmptyCell,
      [formula |-> <<>>, value |-> VScalar(JStr(<<"x">>)), text |-> <<"x">>, style |-> RedBold],
      [formula |-> <<>>, value |-> [VObject({"result"}) EXCEPT !.result = JNull],
       text |-> <<>>, style |-> YellowFill] }
Sheets == SeqsUpTo(SeqsUpTo(SheetCells, MaxSheetCols), MaxSheetRows)

ReaderInit == CalcInit("sheet", Sheets)

Extract ==
    /\ calc.stage = "sheet"
    /\ calc' = [calc EXCEPT !.stage = "extracted", !.out = extractDataAndStyles(calc.arg)]
    /\ UNCHANGED <<sessionVars, hasRAF, codec>>

ReaderSpec == ReaderInit /\ [][Extract]_vars

\* C11: the grid the reader returns has max(row count, 1) rows, each of
\* max(largest cell count, 1) entries, none null or undefined; the style map
\* has an entry exactly for the in-bounds cells whose encoded style is
\* non-empty; the empty sheet gives [[""]] and an empty style map.
C11_ReaderShape ==
    calc.stage = "extracted" =>
        LET ws == calc.arg
            data == calc.out.data
            sty == calc.out.styles
            nrows == IF Len(ws) >= 1 THEN Len(ws) ELSE 1
            widths == {Len(ws[r]) : r \in 1..Len(ws)} \cup {1}
            ncols == CHOOSE w \in widths : \A x \in widths : x <= w
            inBounds == {rc \in (0..5) \X (0..5) : rc[1] < nrows /\ rc[2] < ncols}
            encoded(rc) == excelCellStyleToCss(GetCell(ws, rc[1] + 1, rc[2] + 1).style)
        IN  /\ Len(data) = nrows
            /\ \A r \in 1..Len(data) :
                  /\ Len(data[r]) = ncols
                  /\ \A c \in 1..Len(data[r]) : data[r][c].t \notin {"null", "undef"}
            /\ DOMAIN sty = {encode_cell(rc[1], rc[2]) : rc \in {x \in inBounds : encoded(x) # <<>>}}
            /\ \A rc \in inBounds :
                  encoded(rc) # <<>> => sty[encode_cell(rc[1], rc[2])] = encoded(rc)
            /\ ws = <<>> => (data = << <<EmptyStr>> >> /\ DOMAIN sty = {})

\* a ragged sheet with a styled cell and a null result has been read
C11_Witness ==
    /\ calc.stage = "extracted"
    /\ Len(calc.arg) = MaxSheetRows
    /\ Len(calc.arg[1]) < Len(calc.arg[MaxSheetRows])
    /\ \E c \in 1..Len(calc.arg[MaxSheetRows]) : calc.arg[MaxSheetRows][c].value.t = "obj"
    /\ DOMAIN calc.out.styles # {}
    /\ Len(calc.out.data[1]) = Len(calc.arg[MaxSheetRows])

\* C12: the grid handed to the widget at mount, New and every successful open
\* is rectangular and has at least one row and at least one column.
C12_SuppliedGridRectangular ==
    \A w \in 1..Len(widgets) :
        LET data == widgets[w].data
        IN  /\ Len(data) >= 1
            /\ \A r \in 1..Len(data) : Len(data[r]) >= 1 /\ Len(data[r]) = Len(data[1])

(***************************************************************************)
(* Style Codec on its own: a document style is encoded, the style string   *)
(* is decoded again.                                                       *)
(***************************************************************************)
Red8 == <<"F", "F", "F", "F", "0", "0", "0", "0">>
green8 == <<"8", "0", "0", "0", "f", "f", "0", "0">>
Yellow8 == <<"F", "F", "F", "F", "F", "F", "0", "0">>

\* the fonts and fills ExcelJS hands out: every field absent or set
DocFonts ==
    {[keys |-> {}, color |-> c, name |-> n, size |-> z, bold |-> b, italic |-> i] :
        c \in {<<>>, Red8, green8},
        n \in {<<>>, FontCalibri, FontSegoeUI, <<"Verdana">>},
        z \in {0, 1200, 1100, 1050},
        b \in BOOLEAN, i \in BOOLEAN}
DocFills ==
    { NoFill,
      [type |-> "pattern", fg |-> Yellow8, bg |-> <<>>],
      [type |-> "pattern", fg |-> <<>>, bg |-> green8],
      [type |-> "pattern", fg |-> <<>>, bg |-> <<>>],
      [type |-> "gradient", fg |-> Yellow8, bg |-> <<>>] }
DocStyles ==
    {[hasFont |-> f # NoFont, font |-> f, hasFill |-> l # NoFill, fill |-> l] :
        f \in DocFonts, l \in DocFills}

StyleInit == CalcInit("style", DocStyles)

Encode ==
    /\ calc.stage = "style"
    /\ calc' = [calc EXCEPT !.stage = "css", !.out = excelCellStyleToCss(calc.arg)]
    /\ UNCHANGED <<sessionVars, hasRAF, codec>>

Decode ==
    /\ calc.stage = "css"
    /\ calc' = [calc EXCEPT !.stage = "decoded", !.back = cssToExcelStyle(calc.out)]
    /\ UNCHANGED <<sessionVars, hasRAF, codec>>

StyleSpec == StyleInit /\ [][Encode \/ Decode]_vars

\* the packed colour with the RGB of argb and alpha FF
OpaqueOf(argb) == <<"F", "F">> \o toUpperCase(SubSeq(argb, Len(argb) - 5, Len(argb)))
\* the colour a pattern fill shows
FillColor(style) ==
    IF style.hasFill /\ style.fill.type = "pattern"
    THEN (IF style.fill.fg # <<>> THEN style.fill.fg ELSE style.fill.bg)
    ELSE <<>>

\* C13: decoding the encoded form of a document style gives the same font
\* RGB with alpha FF, the same bold and italic flags, the same fill RGB as a
\* solid pattern, the same font name, and a font size within 0.01pt.
C13_StyleRoundTrip ==
    calc.stage = "decoded" =>
        LET orig == calc.arg
            dec == calc.back
            of == orig.font
            df == dec.font
        IN  /\ (orig.hasFont /\ of.color # <<>>) =>
                   (dec.hasFont /\ df.color = OpaqueOf(of.color))
            /\ (orig.hasFont /\ of.bold) = (dec.hasFont /\ df.bold)
            /\ (orig.hasFont /\ of.italic) = (dec.hasFont /\ df.italic)
            /\ (orig.hasFont /\ of.name # <<>>) => (dec.hasFont /\ df.name = of.name)
            /\ (orig.hasFont /\ of.size # 0) =>
                   (/\ dec.hasFont
                    /\ "size" \in df.keys
                    /\ df.size - of.size \in {0 - 1, 0, 1})
            /\ IF FillColor(orig) # <<>>
               THEN /\ dec.hasFill
                    /\ dec.fill.type = "pattern"
                    /\ dec.fill.fg = OpaqueOf(FillColor(orig))
               ELSE ~dec.hasFill

\* a style with every field set, a quoted font name among them, went round
C13_Witness ==
    /\ calc.stage = "decoded"
    /\ calc.arg.font.name = FontSegoeUI
    /\ calc.arg.font.color = green8
    /\ calc.arg.font.size = 1100
    /\ calc.arg.font.bold /\ calc.arg.font.italic
    /\ calc.arg.fill.bg = green8
    /\ calc.back.font.name = FontSegoeUI
    /\ calc.back.font.size = 1100
    /\ calc.back.fill.fg = OpaqueOf(green8)

(***************************************************************************)
(* Style String Algebra on its own: a style string and an update map are   *)
(* merged and the result merged again; a property map is serialised and    *)
(* parsed.                                                                 *)
(***************************************************************************)
\* the segments between the semicolons of a style string: well-formed ones,
\* padded ones, and malformed ones (no colon, no property, no value, two colons)
Segments ==
    { <<"color", ":", SP, "red">>,
      <<SP, "color", SP, ":", "blue", SP>>,
      <<"font-weight", ":", "bold">>,
      <<"font-family", ":", SP, "Noto", SP, "Sans", ",", SP, "Arial">>,
      <<"zoom">>,
      <<":", SP, "red">>,
      <<"color", ":", SP>>,
      <<"a", ":", "b", ":", "c">>,
      <<>>,
      <<SP>> }
StyleStrings ==
    {Join(segs, <<";">>) : segs \in SeqsUpTo(Segments, MaxSegments)}

UrlValue == <<"url(http", ":", "//x)">>
\* the update maps handed to mergeStyleStrings
UpdateMaps ==
    { <<>>,
      << [k |-> <<"color">>, v |-> <<"blue">>] >>,
      << [k |-> <<"font-weight">>, v |-> <<"normal">>],
         [k |-> <<"font-size">>, v |-> <<"1", "2", "px">>] >>,
      << [k |-> <<"font-family">>, v |-> buildFontFamily(FontCalibri)] >>,
      << [k |-> <<"background-image">>, v |-> UrlValue] >> }

MergeInit ==
    /\ SessionInit
    /\ hasRAF = TRUE
    /\ codec = IdleCodec
    /\ \/ \E x \in StyleStrings, u \in UpdateMaps :
             calc = [IdleCalc EXCEPT !.stage = "args", !.arg = x, !.upd = u]
       \/ \E m \in UpdateMaps : calc = [IdleCalc EXCEPT !.stage = "map", !.arg = m]

Merge ==
    /\ calc.stage = "args"
    /\ calc' = [calc EXCEPT !.stage = "merged", !.out = mergeStyleStrings(calc.arg, calc.upd)]
    /\ UNCHANGED <<sessionVars, hasRAF, codec>>

\* the merged string merged once more, with no update
Remerge ==
    /\ calc.stage = "merged"
    /\ calc' = [calc EXCEPT !.stage = "remerged", !.back = mergeStyleStrings(calc.out, <<>>)]
    /\ UNCHANGED <<sessionVars, hasRAF, codec>>

\* a property map written as mergeStyleStrings writes it and parsed again
SerializeParse ==
    /\ calc.stage = "map"
    /\ calc' = [calc EXCEPT !.stage = "reparsed", !.out = Serialize(calc.arg),
                            !.back = parseStyleString(Serialize(calc.arg))]
    /\ UNCHANGED <<sessionVars, hasRAF, codec>>

MergeSpec == MergeInit /\ [][Merge \/ Remerge \/ SerializeParse]_vars

\* C14: re-parsing mergeStyleStrings(s, u) gives u's value for every key of
\* u, parse(s)'s value for every other key of parse(s), and no other key.
C14_LastWriterWins ==
    calc.stage = "merged" =>
        LET u == calc.upd
            was == parseStyleString(calc.arg)
            now == parseStyleString(calc.out)
        IN  /\ \A i \in 1..Len(u) : HasKey(now, u[i].k) /\ Get(now, u[i].k) = u[i].v
            /\ \A i \in 1..Len(was) :
                  ~HasKey(u, was[i].k) =>
                      (HasKey(now, was[i].k) /\ Get(now, was[i].k) = was[i].v)
            /\ Keys(now) = Keys(u) \cup Keys(was)

\* C15: merging with the empty update map gives a string that parses to the
\* same map as the original, and merging that string again returns it unchanged.
C15_EmptyMergeIdempotent ==
    /\ (calc.stage = "merged" /\ calc.upd = <<>>) =>
           parseStyleString(calc.out) = parseStyleString(calc.arg)
    /\ (calc.stage = "remerged" /\ calc.upd = <<>>) => calc.back = calc.out

\* a string with padding, a repeated property and a malformed segment was
\* merged with the empty map twice
C15_Witness ==
    /\ calc.stage = "remerged"
    /\ calc.upd = <<>>
    /\ calc.arg = Join(<< <<SP, "color", SP, ":", "blue", SP>>, <<"a", ":", "b", ":", "c">> >>,
                       <<";">>)
    /\ calc.out # calc.arg
    /\ calc.back = calc.out
    /\ Len(parseStyleString(calc.out)) = MaxSegments

\* C16: parsing the serialisation of a property map returns that map.
C16_ParseSerialize ==
    calc.stage = "reparsed" => calc.back = calc.arg

(***************************************************************************)
(* Colour Codec on its own.  A colour is a string of one-character tokens; *)
(* the colour object { rgb } of the SheetJS variant is its rgb string, and *)
(* null is the empty string.                                               *)
(***************************************************************************)
\* xlsxColorToCSS, lines 72-78
xlsxColorToCSS(rgb) ==
    IF rgb = <<>> THEN <<>>
    ELSE LET hex == IF StrLength(rgb) = 8 THEN SubSeq(rgb, 3, Len(rgb)) ELSE rgb
         IN  <<"#">> \o SliceLast6(hex)

\* normalized.split('').map(ch => ch + ch).join('')
DoubleChars(s) == [i \in 1..(2 * Len(s)) |-> s[(i + 1) \div 2]]

\* cssColorToXlsx, lines 81-93
cssColorToXlsx(color) ==
    IF color = <<>> THEN <<>>
    ELSE LET trimmed == Trim(color)
             bare == IF StartsWith(trimmed, "#") THEN Tail(trimmed) ELSE trimmed
             normalized == IF StrLength(bare) = 3 THEN DoubleChars(bare) ELSE bare
         IN  IF StrLength(normalized) # 6 THEN <<>>
             ELSE <<"F", "F">> \o toUpperCase(normalized)

HexDigits == {"0", "8", "a", "F"}
\* the valid 3- and 6-digit hex colours over HexDigits
HexColors ==
    {<<"#">> \o d : d \in [1..3 -> HexDigits] \cup [1..6 -> {"0", "a", "F"}]}

ColorInit == CalcInit("css", HexColors)

PackXlsx ==
    /\ calc.stage = "css"
    /\ calc' = [calc EXCEPT !.stage = "xlsx", !.out = cssColorToXlsx(calc.arg)]
    /\ UNCHANGED <<sessionVars, hasRAF, codec>>

UnpackXlsx ==
    /\ calc.stage = "xlsx"
    /\ calc' = [calc EXCEPT !.stage = "xlsxBack", !.back = xlsxColorToCSS(calc.out)]
    /\ UNCHANGED <<sessionVars, hasRAF, codec>>

\* the colour handling of cssToExcelStyle, lines 242-243 and 271-276
PackExcel ==
    /\ calc.stage = "css"
    /\ calc' = [calc EXCEPT !.stage = "excel", !.out = CssColorToArgb(calc.arg)]
    /\ UNCHANGED <<sessionVars, hasRAF, codec>>

UnpackExcel ==
    /\ calc.stage = "excel"
    /\ calc' = [calc EXCEPT !.stage = "excelBack", !.back = excelColorToCss(calc.out)]
    /\ UNCHANGED <<sessionVars, hasRAF, codec>>

ColorSpec == ColorInit /\ [][PackXlsx \/ UnpackXlsx \/ PackExcel \/ UnpackExcel]_vars

\* the six digits a 3- or 6-digit hex colour stands for
SixDigits(h) ==
    LET d == Tail(h)
    IN  IF Len(d) = 3 THEN <<d[1], d[1], d[2], d[2], d[3], d[3]>> ELSE d

\* C17: in both codec variants a valid 3- or 6-digit hex colour is packed as
\* FF followed by six hex digits, and unpacking it gives the six-digit form
\* of the colour (each digit of a 3-digit colour doubled), up to letter case.
C17_HexRoundTrip ==
    /\ calc.stage \in {"xlsx", "excel"} =>
           /\ Len(calc.out) = 8
           /\ SubSeq(calc.out, 1, 2) = <<"F", "F">>
    /\ calc.stage \in {"xlsxBack", "excelBack"} =>
           toUpperCase(calc.back) = <<"#">> \o toUpperCase(SixDigits(calc.arg))

(***************************************************************************)
(* Unit Codec on its own, for point sizes finer than a hundredth: the size *)
(* num/den is converted with exact arithmetic.  Where the exact product is *)
(* a tie (x.5 hundredths) the floating-point product may fall on either    *)
(* side of it, so both roundings are outcomes.  A size is [huge, n]: n     *)
(* thousandths of a point, or, when huge is set, a finite number so large  *)
(* (above 1.35e308) that its product with 4/3 overflows to Infinity.       *)
(***************************************************************************)
\* toFixedNumber(num/den), lines 19-23, in hundredths: Math.round(v * 100)
toFixedNumber(num, den) == (200 * num + den) \div (2 * den)

\* ptToPx of the size num/den, lines 25-28: v * (4/3)
ptToPxOf(num, den) == Num(toFixedNumber(4 * num, 3 * den))

\* ptToPx of a size [huge, n]: toFixedNumber returns null for the infinite product
ptToPxOfSize(size) ==
    IF size.huge THEN Null ELSE ptToPxOf(size.n, 1000)

\* pxToPt of a size in hundredths, lines 30-33: the values Math.round can
\* return for v * (3/4) * 100
pxToPtOutcomes(sizePx) ==
    {pxToPt(sizePx)} \cup
    (IF (6 * sizePx.n) % 8 = 4 THEN {Num(pxToPt(sizePx).n - 1)} ELSE {})

\* point sizes: just above 0, just above 12pt, and a huge one
PointSizes ==
    {[huge |-> FALSE, n |-> b + k] : b \in {0, 12000}, k \in 0..MaxMilliPoints}
        \cup {[huge |-> TRUE, n |-> 0]}

UnitInit == CalcInit("pt", PointSizes)

ToPx ==
    /\ calc.stage = "pt"
    /\ calc' = [calc EXCEPT !.stage = "px", !.out = ptToPxOfSize(calc.arg)]
    /\ UNCHANGED <<sessionVars, hasRAF, codec>>

\* calc.upd lists the point sizes of the round trips made so far
ToPt ==
    /\ calc.stage = "px"
    /\ \E r \in pxToPtOutcomes(calc.out) :
          calc' = [calc EXCEPT !.stage = "back", !.back = r, !.upd = <<r>>]
    /\ UNCHANGED <<sessionVars, hasRAF, codec>>

\* one more ptToPx/pxToPt pair on the size the last round trip returned
RoundTripAgain ==
    /\ calc.stage = "back"
    /\ Len(calc.upd) < 3
    /\ \E r \in pxToPtOutcomes(ptToPx(calc.back)) :
          calc' = [calc EXCEPT !.back = r, !.upd = Append(calc.upd, r)]
    /\ UNCHANGED <<sessionVars, hasRAF, codec>>

UnitSpec == UnitInit /\ [][ToPx \/ ToPt \/ RoundTripAgain]_vars

Abs(x) == IF x < 0 THEN 0 - x ELSE x
\* the distance, in thousandths of a point, of a size in hundredths from calc.arg
Drift(pt) == Abs(10 * pt.n - calc.arg.n)

\* C18: pxToPt(ptToPx(p)) is within 0.01 of p, and after two more round
\* trips the result is no further from p than after the first.
C18_UnitRoundTrip ==
    calc.stage = "back" =>
        /\ \A i \in 1..Len(calc.upd) : ~calc.upd[i].null
        /\ ~calc.arg.huge => Drift(calc.upd[1]) <= 10
        /\ \A i \in 1..Len(calc.upd) : Drift(calc.upd[i]) <= Drift(calc.upd[1])

(***************************************************************************)
(* Font resolution on its own: buildFontFamily applied to one requested    *)
(* name.  The names are the override-table names, the names of the         *)
(* fallback chains and one foreign name, each as typed, quoted, in single  *)
(* quotes, padded with blanks and in lower case.                           *)
(***************************************************************************)
FontNames ==
    { FontCalibri, FontSegoeUI, <<"Inter">>, <<"Noto", SP, "Sans">>,
      <<"Helvetica", SP, "Neue">>, <<"Arial">>, <<"Carlito">>, <<"Verdana">>,
      <<"sans", "-", "serif">> }

RequestedNames ==
    UNION { { f, Quoted(f), <<"'">> \o f \o <<"'">>, <<SP>> \o f \o <<SP>>,
              toLowerCase(f), Quoted(toLowerCase(f)) } : f \in FontNames }
        \cup {<<>>}

FontInit == CalcInit("name", RequestedNames)

\* calc.out is the list buildFontFamily joins with ", "
BuildFamily ==
    /\ calc.stage = "name"
    /\ calc' = [calc EXCEPT !.stage = "family", !.out = FontFamilyParts(calc.arg)]
    /\ UNCHANGED <<sessionVars, hasRAF, codec>>

\* the same list as the string the style carries, split again at its commas
SplitFamily ==
    /\ calc.stage = "family"
    /\ calc' = [calc EXCEPT !.stage = "split",
                            !.back = Split(Join(calc.out, <<",", SP>>), ",")]
    /\ UNCHANGED <<sessionVars, hasRAF, codec>>

FontSpec == FontInit /\ [][BuildFamily \/ SplitFamily]_vars

\* a list entry as a family name: blanks and quotes dropped, lower case
FamilyOf(part) == toLowerCase(normalizeFontName(Trim(part)))

\* C19: the list buildFontFamily returns starts with the requested name
\* (quoted if it contains whitespace) and names no family twice, letter
\* case aside.
C19_FontListDistinct ==
    calc.stage = "family" =>
        LET n == normalizeFontName(calc.arg)
        IN  /\ n # <<>> =>
                 calc.out[1] = (IF Contains(n, SP) THEN Quoted(n) ELSE n)
            /\ \A i, j \in 1..Len(calc.out) :
                 i # j => FamilyOf(calc.out[i]) # FamilyOf(calc.out[j])

(***************************************************************************)
(* The decoders on their own.  A decoder's result is [isNull, style]: null *)
(* or a cell style [hasFont, font, hasFill, fill]; hasFont says that the   *)
(* style has a font object and font.keys lists the fields set on it.       *)
(***************************************************************************)
NullResult == [isNull |-> TRUE, style |-> NoStyle]

\* the forEach body of cssToXlsxStyle, lines 133-170
XlsxPart(style, part) ==
    LET pieces == MapTrim(Split(part, ":"))
        prop == pieces[1]
        value == IF Len(pieces) >= 2 THEN pieces[2] ELSE <<>>
        font == style.font
        WithFont(f) == [style EXCEPT !.hasFont = TRUE, !.font = f]
        sizePx == parseCssFontSize(value)
        sizePt == pxToPt(sizePx)
    IN  IF prop = <<>> \/ value = <<>> THEN style
        ELSE CASE prop = <<"color">> ->
                    WithFont([font EXCEPT !.keys = @ \cup {"color"},
                                          !.color = cssColorToXlsx(value)])
               [] prop = <<"background-color">> ->
                    [style EXCEPT !.hasFill = TRUE,
                                  !.fill = [type |-> "solid",
                                            fg |-> cssColorToXlsx(value),
                                            bg |-> cssColorToXlsx(value)]]
               [] prop = <<"font-family">> ->
                    WithFont([font EXCEPT !.keys = @ \cup {"name"}, !.name = value])
               [] prop = <<"font-size">> ->
                    IF sizePt.null THEN WithFont(font)
                    ELSE WithFont([font EXCEPT !.keys = @ \cup {"size"}, !.size = sizePt.n])
               [] prop = <<"font-weight">> ->
                    WithFont([font EXCEPT !.keys = @ \cup {"bold"},
                                          !.bold = value = <<"bold">>
                                                   \/ value = <<"7", "0", "0">>])
               [] prop = <<"font-style">> ->
                    WithFont([font EXCEPT !.keys = @ \cup {"italic"},
                                          !.italic = value = <<"italic">>])
               [] OTHER -> style

RECURSIVE XlsxParts(_, _)
XlsxParts(style, parts) ==
    IF parts = <<>> THEN style
    ELSE XlsxParts(XlsxPart(style, Head(parts)), Tail(parts))

\* lines 124-174; Object.keys(style).length ? style : null
cssToXlsxStyle(cssString) ==
    IF cssString = <<>> THEN NullResult
    ELSE LET style == XlsxParts(NoStyle, FilterNonEmpty(MapTrim(Split(cssString, ";"))))
         IN  IF style.hasFont \/ style.hasFill
             THEN [isNull |-> FALSE, style |-> style]
             ELSE NullResult

\* what cssToExcelStyle returns, lines 236 and 279-282: an object every time
cssToExcelStyleResult(cssString) ==
    [isNull |-> FALSE, style |-> cssToExcelStyle(cssString)]

\* declarations: usable, unknown, and recognized with an unusable value
Declarations ==
    { <<"font-size", ":", SP, "a", "b", "c">>,
      <<"font-size", ":", SP, "1", "2", "px">>,
      <<"font-size", ":">>,
      <<"color", ":", SP, "z", "z", "z">>,
      <<"color", ":", SP, "#", "F", "F", "0", "0", "0", "0">>,
      <<"font-weight", ":", SP, "bold">>,
      <<"font-family", ":", SP, "Arial">>,
      <<"background-color", ":", SP, "#", "F", "F", "F", "F", "0", "0">>,
      <<"margin", ":", SP, "0">>,
      <<"text-align", ":", SP, "center">> }

CssStrings ==
    {<<>>, <<SP>>} \cup Declarations
        \cup {a \o <<";", SP>> \o b : a, b \in Declarations}

DecodeInit == CalcInit("css", CssStrings)

DecodeXlsx ==
    /\ calc.stage = "css"
    /\ calc' = [calc EXCEPT !.stage = "xlsxDecoded", !.back = cssToXlsxStyle(calc.arg)]
    /\ UNCHANGED <<sessionVars, hasRAF, codec>>

DecodeExcel ==
    /\ calc.stage = "css"
    /\ calc' = [calc EXCEPT !.stage = "excelDecoded",
                            !.back = cssToExcelStyleResult(calc.arg)]
    /\ UNCHANGED <<sessionVars, hasRAF, codec>>

DecodeSpec == DecodeInit /\ [][DecodeXlsx \/ DecodeExcel]_vars

\* C20: either decoder returns null when no recognized property produced a
\* field; a result that is not null has a font or a fill, and its font, if
\* any, has at least one field.
C20_NullWhenNoField ==
    calc.stage \in {"xlsxDecoded", "excelDecoded"} =>
        LET style == calc.back.style
        IN  ~calc.back.isNull =>
                /\ style.hasFont \/ style.hasFill
                /\ style.hasFont => style.font.keys # {}

(***************************************************************************)
(* The editor session again: dates, the applicator, onload, and the chat.  *)
(***************************************************************************)
\* C21: a date cell with no formula is displayed as its rendered text, and
\* as the date's ISO-8601 string when it has no rendered text.
C21_DateDisplay ==
    (codec.stage = "read" /\ codec.cell.value.t = "date" /\ codec.cell.formula = <<>>) =>
        codec.value = JStr(IF codec.cell.text # <<>> THEN codec.cell.text ELSE ISOString)

(***************************************************************************)
(* The applicator on its own: applyAllStylesToDom on the cells of one      *)
(* instance and one style map.  calc.arg = [dom, map]; the widget renders  *)
(* A1 and B1, the style map may also name A3 and C1.                       *)
(***************************************************************************)
InlineStyles ==
    { <<>>,
      <<"width", ":", SP, "100px">>,
      <<"color", ":", SP, "red", ";", SP, "width", ":", SP, "100px">> }

MapStyles ==
    { <<>>,
      <<"color", ":", SP, "blue">>,
      <<"font-weight", ":", SP, "bold", ";", SP, "color", ":", SP, "blue">> }

RenderedDoms == [{"A1", "B1"} -> InlineStyles]

StyleMaps == UNION {[as -> MapStyles] : as \in SUBSET {"A1", "B1", "A3", "C1"}}

ApplicatorInit ==
    CalcInit("dom", {[dom |-> d, map |-> m] : d \in RenderedDoms, m \in StyleMaps})

ApplyAll ==
    /\ calc.stage = "dom"
    /\ calc' = [calc EXCEPT !.stage = "applied",
                            !.out = applyAllStylesToDom(calc.arg.dom, calc.arg.map)]
    /\ UNCHANGED <<sessionVars, hasRAF, codec>>

\* applyNow runs again on the next frame or timer
ApplyAgain ==
    /\ calc.stage = "applied"
    /\ calc' = [calc EXCEPT !.stage = "reapplied",
                            !.back = applyAllStylesToDom(calc.out, calc.arg.map)]
    /\ UNCHANGED <<sessionVars, hasRAF, codec>>

ApplicatorSpec == ApplicatorInit /\ [][ApplyAll \/ ApplyAgain]_vars

\* the inline style `after` is `before` with the properties of `style` merged in
MergedOnto(before, style, after) ==
    LET b == parseStyleString(before)
        u == parseStyleString(style)
        m == parseStyleString(after)
    IN  /\ \A i \in 1..Len(u) : HasKey(m, u[i].k) /\ Get(m, u[i].k) = u[i].v
        /\ \A i \in 1..Len(b) :
              ~HasKey(u, b[i].k) => (HasKey(m, b[i].k) /\ Get(m, b[i].k) = b[i].v)
        /\ \A i \in 1..Len(m) : HasKey(u, m[i].k) \/ HasKey(b, m[i].k)

\* C22: applyAllStylesToDom leaves alone every address that has no rendered
\* cell and every entry with an empty style string, and merges the style of
\* every other entry onto its cell, whose other inline properties stay.
C22_ApplicatorSkips ==
    calc.stage = "applied" =>
        /\ DOMAIN calc.out = DOMAIN calc.arg.dom
        /\ \A a \in DOMAIN calc.arg.dom :
              IF a \in DOMAIN calc.arg.map /\ calc.arg.map[a] # <<>>
              THEN MergedOnto(calc.arg.dom[a], calc.arg.map[a], calc.out[a])
              ELSE calc.out[a] = calc.arg.dom[a]

\* a map naming an unrendered address and holding an empty entry has been
\* applied, and a cell kept its width while its colour was replaced
C22_Witness ==
    /\ calc.stage = "applied"
    /\ "A3" \in DOMAIN calc.arg.map
    /\ calc.arg.map["A3"] # <<>>
    /\ "B1" \in DOMAIN calc.arg.map
    /\ calc.arg.map["B1"] = <<>>
    /\ "A1" \in DOMAIN calc.arg.map
    /\ calc.arg.dom["A1"] = <<"color", ":", SP, "red", ";", SP, "width", ":", SP, "100px">>
    /\ calc.out["A1"] = <<"color", ":", SP, "blue", ";", SP, "width", ":", SP, "100px">>

\* C23: when a widget is created, its onload notification and
\* initSpreadsheet each schedule a restyle, and every restyle scheduled then
\* is for the instance that was just created.
C23_OnloadRestylesItsInstance ==
    [][Len(widgets') > Len(widgets) =>
          /\ Len(pending') >= Len(pending) + 2
          /\ \A i \in (Len(pending) + 1)..Len(pending') :
                pending'[i].inst = instance']_vars

\* C24: a cell whose value or style was changed after the chat took its
\* snapshot still has that value and style once the agent's file is loaded.
C24_EditsSurviveChat ==
    [][\A l \in loads :
          (l.kind = "buffer" /\ LoadOk(l)) =>
              LET now == dataToExcelBuffer(grid, styles)
              IN  \A r \in 1..Len(grid) : \A c \in 1..Len(grid[r]) :
                      (/\ r <= Len(chat.snapshot)
                       /\ c <= Len(chat.snapshot[r])
                       /\ now[r][c] # chat.snapshot[r][c]) =>
                          /\ r <= Len(grid')
                          /\ c <= Len(grid'[r])
                          /\ grid'[r][c] = grid[r][c]
                          /\ StyleAt(heap'[stylesRef'], encode_cell(r - 1, c - 1))
                                 = StyleAt(styles, encode_cell(r - 1, c - 1))]_vars

\* the steps of handleSendMessage that end or continue it without a load
ChatStepNoLoad ==
    \/ handleSendMessage
    \/ handleSendMessageNoInstance
    \/ ChatEncoded
    \/ ChatFails
    \/ ChatRefused
    \/ \E file \in Files : ChatAccepted(file)
    \/ ChatFetched
    \/ \E l \in loads : l.kind = "buffer" /\ LoadFail(l)

\* C25: handleSendMessage replaces the grid and the style map only by the
\* load of a fetched output file that decodes, after a success response; its
\* every other step (a failure response, a rejected request, a missing
\* instance, a decode error) leaves the grid, the style maps, stylesRef and
\* the widget instances as they were.
C25_ChatReplacesOnlyOnSuccess ==
    [][/\ ChatStepNoLoad => UNCHANGED <<grid, heap, stylesRef, instance, widgets>>
       /\ \A l \in loads :
             (l.kind = "buffer" /\ LoadOk(l)) =>
                 /\ chat.stage = "loading"
                 /\ chat.out = l.file
                 /\ IsWorkbook(l.file)
                 /\ chatResult' = "success"]_vars

\* a chat has ended in an error on a styled document after its output file
\* failed to decode
C25_Witness ==
    /\ chatResult = "error"
    /\ ~isLoading
    /\ alerts = 0
    /\ \E i \in LoadIds : loadLog[i].status = "failed"
    /\ DOMAIN styles # {}

\* the steps at which something inside handleSendMessage throws
ChatException ==
    \/ handleSendMessageNoInstance
    \/ ChatFails
    \/ \E l \in loads : l.kind = "buffer" /\ LoadFail(l)

\* C26: a handleSendMessage call that settles leaves isLoading false and
\* returns a result; an exception inside it comes back as the error result;
\* and isLoading is set exactly while a call is in flight.
C26_ChatSettles ==
    [][/\ (chat.stage # "idle" /\ chat'.stage = "idle") =>
             (~isLoading' /\ chatResult' \in {"success", "failure", "error"})
       /\ ChatException => (chatResult' = "error" /\ ~isLoading' /\ chat'.stage = "idle")
       /\ isLoading' <=> chat'.stage # "idle"]_vars

\* a request was rejected on the way and the call returned the error result
C26_Witness ==
    /\ chatResult = "error"
    /\ ~isLoading
    /\ chat = IdleChat
    /\ instance # 0
    /\ \A i \in LoadIds : loadLog[i].status # "failed"

\* the number of messages of `ms` with a role in `roles`
CountRoles(ms, roles) == Cardinality({i \in 1..Len(ms) : ms[i].role \in roles})

\* one message with a role in `roles` has been appended
AppendedOne(roles) ==
    /\ Len(messages') = Len(messages) + 1
    /\ SubSeq(messages', 1, Len(messages)) = messages
    /\ messages'[Len(messages')].role \in roles

\* C27: a request starts only by a submit with a non-blank input while
\* isLoading is false and none is in flight, and appends one user message
\* (the trimmed input); a request that settles appends one assistant or error
\* message; nothing else changes the messages, so the user messages are the
\* replies plus the one request in flight, if any.
C27_SubmitGuard ==
    [][/\ (chat'.stage # "idle" /\ chat.stage = "idle") =>
             /\ ~isLoading
             /\ AppendedOne({"user"})
             /\ messages'[Len(messages')].content # <<>>
             /\ \E input \in ChatInputs :
                   messages'[Len(messages')].content = Trim(input)
       /\ (chat.stage # "idle" /\ chat'.stage = "idle") => AppendedOne({"assistant", "error"})
       /\ (chat.stage # "idle" /\ chat'.stage # "idle") => messages' = messages
       /\ (chat.stage = "idle" /\ chat'.stage = "idle" /\ messages' # messages) =>
             (/\ instance = 0
              /\ ~isLoading
              /\ Len(messages') = Len(messages) + 2
              /\ messages'[Len(messages') - 1].role = "user"
              /\ messages'[Len(messages') - 1].content # <<>>
              /\ messages'[Len(messages')].role = "error")
       /\ CountRoles(messages', {"user"}) =
             CountRoles(messages', {"assistant", "error"})
                 + (IF chat'.stage # "idle" THEN 1 ELSE 0)]_vars

\* two requests were accepted one after the other; the first was answered,
\* the second ended in an error
C27_Witness ==
    /\ Len(messages) = 4
    /\ messages[1] = [role |-> "user", content |-> <<"hi">>]
    /\ messages[2].role = "assistant"
    /\ messages[3].role = "user"
    /\ messages[4].role = "error"
    /\ ~isLoading

\* C28: the file name changes only when an upload has been loaded (to that
\* upload's name) or New is chosen; no other step, the start of an upload
\* that may yet fail or be superseded included, changes it.
C28_FileNameFollowsDocument ==
    [][fileName' # fileName =>
          \/ handleNew
          \/ \E l \in loads : l.kind = "upload" /\ LoadOk(l) /\ fileName' = l.file]_vars

====
